---------------------------- MODULE Spec2Model ----------------------------
(***************************************************************************)
(* A state-machine model of generate_spaceship (spaceship_generator.py):   *)
(* the seeded geometry random stream, the boundary mesh as the generator   *)
(* drives it through bmesh, hull growth, the asymmetry pass, face          *)
(* classification, the seven detail generators and the symmetry passes.    *)
(*                                                                         *)
(* Abstractions.  Lengths are integers in hundredths of a Blender unit.    *)
(* A face carries its material index, its loop of edge ids (edges are      *)
(* shared between neighbouring faces, as in bmesh), its nominal normal     *)
(* axis, the direction group its actual normal falls in, and the sign of   *)
(* its position on each axis.  Vertices are counted per (sign of y, sign   *)
(* of z) cell.  Geometry added by the detail generators (grid cells,       *)
(* cones, icospheres) is kept as fragments: groups of faces that share a   *)
(* material and a position.                                                *)
(***************************************************************************)
EXTENDS Integers, Sequences, FiniteSets, TLC

(***************************************************************************)
(* Bounds of the model.                                                    *)
(***************************************************************************)
MaxHullSeg == 1      \* num_hull_segments_min/max range over 0..MaxHullSeg
MaxAsymSeg == 2      \* num_asymmetry_segments_min/max range over 1..MaxAsymSeg
NumSeeds == 2        \* non-empty geometry seeds "1".."NumSeeds"
MaxEdge == 250        \* edge lengths of a measured face range over 1..MaxEdge
MaxEntropy == 1      \* OS entropy values 0..MaxEntropy seeding an unseeded stream
\* the states of the geometry stream tried where a stage is entered with
\* the stream in any state: before a hull segment, before classification
MaxStream == 40
MaxDetailStream == 3

(***************************************************************************)
(* The geometry random stream.  random.Random is modelled as a linear      *)
(* congruential generator whose output is quantised to RngRes levels:      *)
(* random() returns Raw/RngRes.  Seeding with a value fixes the state;     *)
(* an unseeded generator starts in a state taken from OS entropy.          *)
(***************************************************************************)
RngMod == 1024
RngMul == 421
RngInc == 17
RngRes == 20

NextRng(s) == (RngMul * s + RngInc) % RngMod
Raw(s) == (s * RngRes) \div RngMod

SeedState(seed) == (seed * 389 + 71) % RngMod
EntropyState(e) == (e * 523 + 200) % RngMod

\* Random(); if geom_ranseed != "" : seed(geom_ranseed).  Seed 0 is "".
\* (NewRandomUnseeded: the variant that leaves out the call of seed)
NewRandomUnseeded(seed, e) == EntropyState(e)
NewRandom(seed, e) == IF seed # 0 THEN SeedState(seed) ELSE EntropyState(e)


(***************************************************************************)
(* The generation context g threads everything generate_spaceship and its  *)
(* nested functions share: the bmesh (faces, elen, verts, frags), the      *)
(* geometry stream (rng) with the number of draws consumed (nd), and err,  *)
(* set when a Python exception is raised.                                  *)
(***************************************************************************)
Val(g) == Raw(NextRng(g.rng))                      \* value of the next draw
Adv(g) == [g EXCEPT !.rng = NextRng(g.rng), !.nd = @ + 1]
Fail(g) == [g EXCEPT !.err = TRUE]

\* random() > t, with t in hundredths
Above(v, t) == v * 100 > t * RngRes
\* uniform(a, b) = a + (b - a) * random(), in hundredths
Uniform(v, a, b) == a + ((b - a) * v) \div RngRes
\* randrange(a, b + 1) and randint(a, b), for a <= b
RandInt(v, a, b) == a + (v * (b - a + 1)) \div RngRes

(***************************************************************************)
(* Directions and positions.                                               *)
(***************************************************************************)
Dirs == {"+x", "-x", "+y", "-y", "+z", "-z"}
Axis(d) == CASE d \in {"+x", "-x"} -> "x"
             [] d \in {"+y", "-y"} -> "y"
             [] d \in {"+z", "-z"} -> "z"
             [] OTHER -> "none"
Sgn(d) == IF d \in {"+x", "+y", "+z"} THEN 1 ELSE IF d \in Dirs THEN -1 ELSE 0
Opp(d) == CASE d = "+x" -> "-x" [] d = "-x" -> "+x"
            [] d = "+y" -> "-y" [] d = "-y" -> "+y"
            [] d = "+z" -> "-z" [] d = "-z" -> "+z"
            [] OTHER -> "none"
Abs(n) == IF n < 0 THEN -n ELSE n
Min(a, b) == IF a < b THEN a ELSE b
Max(a, b) == IF a > b THEN a ELSE b
Cyc(k, n) == ((k - 1) % n) + 1                     \* index k wrapped into 1..n

Pos(x, y, z) == [x |-> x, y |-> y, z |-> z]
Cells == {<<y, z>> : y \in {-1, 0, 1}, z \in {-1, 0, 1}}

\* the cells the vertices of a face at position p fall in
CellsOf(p) ==
  { <<y, z>> : y \in (IF p.y = 0 THEN {-1, 1} ELSE {p.y}),
               z \in (IF p.z = 0 THEN {-1, 1} ELSE {p.z}) }
FirstCell(p) == <<IF p.y = 0 THEN -1 ELSE p.y, IF p.z = 0 THEN -1 ELSE p.z>>
\* n vertices added to (k = 1) or taken from (k = -1) the cells of position p
MoveVerts(verts, p, n, k) ==
  LET cs == CellsOf(p)
      q == n \div Cardinality(cs)
      r == n % Cardinality(cs)
  IN [c \in Cells |->
        IF c \in cs THEN verts[c] + k * (q + (IF c = FirstCell(p) THEN r ELSE 0))
        ELSE verts[c]]
AddVerts(verts, p, n) == MoveVerts(verts, p, n, 1)
NumVerts(verts) ==
  verts[<<-1, -1>>] + verts[<<-1, 0>>] + verts[<<-1, 1>>]
  + verts[<<0, -1>>] + verts[<<0, 0>>] + verts[<<0, 1>>]
  + verts[<<1, -1>>] + verts[<<1, 0>>] + verts[<<1, 1>>]

(***************************************************************************)
(* class MATERIAL(enum.IntEnum)                                            *)
(***************************************************************************)
HULL == 0
HULL_LIGHTS == 1
HULL_DARK == 2
HULL_METALLIC == 3
EXHAUST_BURN == 4
GLOW_DISC == 5
N_MATERIALS == 6

(***************************************************************************)
(* Faces.  n is the nominal (axis) normal, dir the direction group the     *)
(* actual normal is in ("none" when tilted out of every group), sd[k] the  *)
(* direction in which edge k lies from the face centre, edges[k] the id of *)
(* edge k (1-based: edges[1] is Python's face.edges[0]).  For the side     *)
(* face of an extrusion, rise is the distance of the extrusion and lean    *)
(* the distance by which its far edge (the cap's) has since moved inward,  *)
(* against n; both are 0 for any other face.                               *)
(***************************************************************************)
Face(n, sd, p, edges, gen) ==
  [valid |-> TRUE, mat |-> HULL, n |-> n, dir |-> n, sd |-> sd, pos |-> p,
   edges |-> edges, gen |-> gen, lean |-> 0, rise |-> 0]

ValidFaces(g) == { f \in 1..Len(g.faces) : g.faces[f].valid }
\* bm.faces[:] : the handles of the faces now in the mesh, in order
AllFaces(g) ==
  SelectSeq([k \in 1..Len(g.faces) |-> k], LAMBDA k : g.faces[k].valid)

\* bmesh.ops.create_cube(bm, size = 1); bmesh.ops.scale(bm, vec = scale_vector)
CreateCube(g, sx, sy, sz) ==
  [g EXCEPT
     !.elen = <<sx, sx, sx, sx, sy, sy, sy, sy, sz, sz, sz, sz>>,
     !.faces = <<
        Face("-x", <<"-z", "+y", "+z", "-y">>, Pos(-1, 0, 0), <<5, 12, 8, 9>>, "box"),
        Face("+x", <<"-z", "+y", "+z", "-y">>, Pos(1, 0, 0), <<6, 11, 7, 10>>, "box"),
        Face("-y", <<"-z", "+x", "+z", "-x">>, Pos(0, -1, 0), <<1, 10, 4, 9>>, "box"),
        Face("+y", <<"-z", "+x", "+z", "-x">>, Pos(0, 1, 0), <<2, 11, 3, 12>>, "box"),
        Face("-z", <<"-y", "+x", "+y", "-x">>, Pos(0, 0, -1), <<1, 6, 2, 5>>, "box"),
        Face("+z", <<"-y", "+x", "+y", "-x">>, Pos(0, 0, 1), <<4, 7, 3, 8>>, "box") >>,
     !.verts = [c \in Cells |-> IF 0 \in {c[1], c[2]} THEN 0 ELSE 2]]

\* variant: the ratio is returned as computed, without the inversion
get_aspect_ratio_AsComputed(g, f) ==
  LET F == g.faces[f]
      e0 == g.elen[F.edges[1]]
      e1 == g.elen[F.edges[2]]
  IN IF ~F.valid THEN <<1, 1>>
     ELSE IF 100 * e0 < e1 THEN <<1, 100>> ELSE <<e0, e1>>
\* get_aspect_ratio(face) as the fraction <<numerator, denominator>>
get_aspect_ratio(g, f) ==
  LET F == g.faces[f]
      e0 == g.elen[F.edges[1]]
      e1 == g.elen[F.edges[2]]
      r == IF 100 * e0 < e1 THEN <<1, 100>> ELSE <<e0, e1>>   \* max(0.01, e0 / e1)
  IN IF ~F.valid THEN <<1, 1>>
     ELSE IF r[1] < r[2] THEN <<r[2], r[1]>> ELSE r
\* aspect ratio a exceeds the whole number k
AspectAbove(a, k) == a[1] > k * a[2]
\* variant: int(3 - a)
IntThreeMinus(a) ==
  IF 3 * a[2] >= a[1] THEN (3 * a[2] - a[1]) \div a[2]
  ELSE 0 - ((a[1] - 3 * a[2]) \div a[2])
\* int(4 - a): truncation toward zero
IntFourMinus(a) ==
  IF 4 * a[2] >= a[1] THEN (4 * a[2] - a[1]) \div a[2]
  ELSE 0 - ((a[1] - 4 * a[2]) \div a[2])

\* get_face_width_and_height(face)
get_face_width_and_height(g, f) ==
  LET F == g.faces[f]
  IN IF ~F.valid \/ Len(F.edges) < 4 THEN <<-100, -100>>
     ELSE <<g.elen[F.edges[1]], g.elen[F.edges[2]]>>

\* is_rear_face(face): face.normal.x < -0.95
is_rear_face(g, f) == g.faces[f].dir = "-x"

(***************************************************************************)
(* bmesh.ops.extrude_discrete_faces(bm, faces = [face]): the face is       *)
(* copied onto new vertices and edges, one side quad is built on each of   *)
(* its edges from the old edge to the new one, and the original face is    *)
(* deleted.  The copy and the side quads take the attributes (material     *)
(* index) of the original.  The operator's "faces" output holds the copy   *)
(* alone.  The copy is then translated along its normal by the distance.   *)
(* Side k has loop (riser k+1, new edge k, riser k, old edge k).           *)
(***************************************************************************)
SideFace(F, k, ne, nl, gen, d) ==
  [valid |-> TRUE, mat |-> F.mat, n |-> F.sd[k], dir |-> F.sd[k],
   sd |-> <<F.sd[Cyc(k + 1, ne)], F.n, F.sd[Cyc(k - 1, ne)], Opp(F.n)>>,
   pos |-> [F.pos EXCEPT ![Axis(F.sd[k])] = IF @ = 0 THEN Sgn(F.sd[k]) ELSE @],
   edges |-> <<nl + ne + Cyc(k + 1, ne), nl + k, nl + ne + k, F.edges[k]>>,
   gen |-> gen, lean |-> 0, rise |-> Abs(d)]

\* the mesh after the extrusion of face f by distance d
Extruded(g, f, d, gen) ==
  LET F == g.faces[f]
      ne == Len(F.edges)
      nl == Len(g.elen)
      cap == [F EXCEPT !.edges = [k \in 1..ne |-> nl + k], !.gen = gen,
                       !.lean = 0, !.rise = 0]
  IN [g EXCEPT
        !.faces = [@ EXCEPT ![f].valid = FALSE]
                    \o <<cap>> \o [k \in 1..ne |-> SideFace(F, k, ne, nl, gen, d)],
        !.elen = @ \o [k \in 1..ne |-> g.elen[F.edges[k]]] \o [k \in 1..ne |-> Abs(d)],
        !.verts = AddVerts(@, F.pos, ne)]

\* extrude_face(bm, face, translate_forwards, extruded_face_list): the
\* result holds the context, the new face and the faces appended to the list
extrude_face(g, f, d, gen) ==
  IF g.err THEN [g |-> g, face |-> f, list |-> <<>>]
  ELSE IF ~g.faces[f].valid THEN [g |-> Fail(g), face |-> f, list |-> <<>>]
  ELSE [g |-> Extruded(g, f, d, gen), face |-> Len(g.faces) + 1,
        list |-> <<Len(g.faces) + 1>>]

(***************************************************************************)
(* scale_face(bm, face, scale_x, scale_y, scale_z): scales the vertices of *)
(* the face about its centre in the face's frame, whose x axis runs along  *)
(* edges[0] and whose z axis is the normal.  Factors are in hundredths.    *)
(* Edges parallel to edges[0] scale by scale_x, the others by scale_y; a   *)
(* neighbour across edge k leans by the inward move of that edge.          *)
(***************************************************************************)
ParX(F, k) == Axis(F.sd[k]) = Axis(F.sd[1])       \* edge k is parallel to edges[0]
Scaled(len, s) == (len * s) \div 100
\* tan, in hundredths, of the largest angle between a normal and the axis
\* of a direction group that keeps the normal in the group:
\* normal.x < -0.95 for a rear face, 0.9 for the others
Tolerance(d) == IF d = "-x" THEN 33 ELSE 48

\* the length of the vector (a, b, c), rounded down
ISqrt3(a, b, c) ==
  LET n == a * a + b * b + c * c
  IN CHOOSE r \in Max(Abs(a), Max(Abs(b), Abs(c)))..(Abs(a) + Abs(b) + Abs(c)) :
       r * r <= n /\ n < (r + 1) * (r + 1)

\* the direction group of the normal of side face H: its own while the lean
\* is small against the rise, that of the extrusion (or its opposite) when
\* the face lies nearly flat, none in between
LeanDir(H) ==
  LET a == Abs(H.lean)
      to == IF H.lean > 0 THEN H.sd[2] ELSE Opp(H.sd[2])
  IN IF H.lean = 0 THEN H.n
     ELSE IF H.rise = 0 THEN to
     ELSE IF 100 * a < Tolerance(H.n) * H.rise THEN H.n
     ELSE IF a * Tolerance(to) > 100 * H.rise THEN to
     ELSE "none"

\* the mesh after the edges of face f have moved: the side face h across an
\* edge of f leans by inc[h] more, and the edges from the corners of f are
\* as long as rise and the leans of the two side faces they lie between make them
Leaned(g, f, inc) ==
  LET F == g.faces[f]
      ids == { F.edges[k] : k \in 1..Len(F.edges) }
      Shared(H) == { m \in 1..Len(H.edges) : H.edges[m] \in ids }
      Sides == { h \in ValidFaces(g) \ {f} : Shared(g.faces[h]) # {} }
      lean(h) == g.faces[h].lean + inc[h]
      \* the edges of side face H that meet f at a corner
      RisersOf(H) ==
        ({ H.edges[Cyc(m + 1, Len(H.edges))] : m \in Shared(H) }
         \cup { H.edges[Cyc(m - 1, Len(H.edges))] : m \in Shared(H) }) \ ids
      Risers == UNION { RisersOf(g.faces[h]) : h \in Sides }
      length(e) ==
        LET hs == { h \in Sides : e \in RisersOf(g.faces[h]) }
            a == CHOOSE h \in hs : TRUE
            b == CHOOSE h \in hs : hs = {a} \/ h # a
        IN ISqrt3(g.faces[a].rise, lean(a), IF b = a THEN 0 ELSE lean(b))
  IN [g EXCEPT
        !.elen = [e \in 1..Len(g.elen) |->
                    IF e \in Risers THEN length(e) ELSE g.elen[e]],
        !.faces = [h \in 1..Len(g.faces) |->
                    IF h \in Sides /\ inc[h] # 0
                    THEN [g.faces[h] EXCEPT
                            !.lean = lean(h),
                            !.dir = LeanDir([g.faces[h] EXCEPT !.lean = lean(h)])]
                    ELSE g.faces[h]]]

ScaleFaceMesh(g, f, sx, sy) ==
  LET F == g.faces[f]
      ne == Len(F.edges)
      ids == { F.edges[k] : k \in 1..ne }
      fac(k) == IF ParX(F, k) THEN sx ELSE sy
      lenX == g.elen[F.edges[1]]
      lenY == g.elen[F.edges[2]]
      dX == lenX - Scaled(lenX, sx)                \* shrinkage along x
      dY == lenY - Scaled(lenY, sy)                \* shrinkage along y
      move(k) == IF ParX(F, k) THEN dY \div 2 ELSE dX \div 2
      inc == [h \in 1..Len(g.faces) |->
                LET H == g.faces[h]
                    ms == { m \in 1..Len(H.edges) : H.edges[m] \in ids }
                    m == CHOOSE i \in ms : TRUE
                IN IF ms = {} THEN 0
                   ELSE move(CHOOSE k \in 1..ne : F.edges[k] = H.edges[m])]
      g1 == [g EXCEPT
               !.elen = [e \in 1..Len(g.elen) |->
                           IF e \in ids
                           THEN Scaled(g.elen[e],
                                       fac(CHOOSE k \in 1..ne : F.edges[k] = e))
                           ELSE g.elen[e]]]
  IN Leaned(g1, f, inc)

scale_face(g, f, sx, sy, sz) ==
  IF g.err THEN g
  ELSE IF ~g.faces[f].valid THEN Fail(g)
  ELSE ScaleFaceMesh(g, f, sx, sy)

\* bmesh.ops.translate(bm, vec = (0, 0, t), verts = face.verts): the face
\* leaves the z = 0 plane behind when moved by half its extent in z or more
ExtentZ(g, f) ==
  LET F == g.faces[f]
      ks == { k \in 1..Len(F.edges) : Axis(F.sd[k]) # "z" }
  IN IF ks = {} THEN 0 ELSE g.elen[F.edges[CHOOSE k \in ks : TRUE]]
translate_z(g, f, t) ==
  LET F == g.faces[f]
      p == IF 2 * Abs(t) >= ExtentZ(g, f)
           THEN [F.pos EXCEPT !.z = IF t > 0 THEN 1 ELSE -1]
           ELSE F.pos
      \* the side faces above and below: the cap's edge moves out of one
      \* and into the other
      inc == [h \in 1..Len(g.faces) |->
                IF Axis(g.faces[h].n) = "z" THEN 0 - Sgn(g.faces[h].n) * t ELSE 0]
      g1 == Leaned(g, f, inc)
  IN IF g.err THEN g
     ELSE IF ~F.valid THEN Fail(g)
     ELSE [g1 EXCEPT !.faces[f].pos = p,
                     !.verts = AddVerts(MoveVerts(@, F.pos, Len(F.edges), -1),
                                        p, Len(F.edges))]

\* bmesh.ops.rotate(bm, verts = face.verts, cent = (0, 0, 0), matrix = 5 deg about Y)
rotate_y(g, f, angle) ==
  IF g.err THEN g ELSE IF ~g.faces[f].valid THEN Fail(g) ELSE g

(***************************************************************************)
(* ribbed_extrude_face(bm, face, translate_forwards, num_ribs, rib_scale)  *)
(***************************************************************************)
\* variant: the middle step of a rib is a quarter too
RibStepsShort(translate_forwards, num_ribs) ==
  [k \in 1..5 |-> <<(IF k \in {1, 3, 5} THEN 1 ELSE 0) * translate_forwards,
                    4 * num_ribs>>]
\* the distances of one rib unit, as fractions <<numerator, denominator>>:
\* translate_forwards_per_rib * 0.25, 0.0, * 0.5, 0.0, * 0.25
RibSteps(translate_forwards, num_ribs) ==
  [k \in 1..5 |-> <<(IF k \in {1, 5} THEN 1 ELSE IF k = 3 THEN 2 ELSE 0)
                      * translate_forwards,
                    4 * num_ribs>>]
\* a distance in whole hundredths
Whole(q) == q[1] \div q[2]

\* new_face = extrude_face(bm, new_face, d), on the outcome r of the step before
RibExtrude(r, d) == extrude_face(r.g, r.face, d, "hull")
\* scale_face(bm, new_face, s, s, s), likewise
RibScale(r, s) == [g |-> scale_face(r.g, r.face, s, s, s), face |-> r.face]

RibUnit(g, f, steps, rib_scale) ==
  RibExtrude(
    RibScale(
      RibExtrude(
        RibExtrude(
          RibScale(
            RibExtrude(
              RibExtrude([g |-> g, face |-> f], Whole(steps[1])),
              Whole(steps[2])),
            rib_scale),
          Whole(steps[3])),
        Whole(steps[4])),
      10000 \div rib_scale),
    Whole(steps[5]))

\* "for i in range(num_ribs)": dists collects the distances extruded by
RECURSIVE RibLoop(_, _, _, _, _, _)
RibLoop(g, f, steps, rib_scale, n, dists) ==
  IF n <= 0 \/ g.err THEN [g |-> g, face |-> f, dists |-> dists]
  ELSE LET r == RibUnit(g, f, steps, rib_scale)
       IN RibLoop(r.g, r.face, steps, rib_scale, n - 1, dists \o steps)

ribbed_extrude_face(g, f, translate_forwards, num_ribs, rib_scale) ==
  RibLoop(g, f, RibSteps(translate_forwards, num_ribs), rib_scale, num_ribs, <<>>)

(***************************************************************************)
(* State.                                                                  *)
(*   parms        the GenerationParameters of the call                     *)
(*   pc           the position of generate_spaceship                       *)
(*   st           the generation context                                   *)
(*   scale_vector the three scale factors of the seed box                  *)
(*   snap, it     the face list a for loop iterates over and its index     *)
(*   arm          the running hull arm: face, hull_segment_length,         *)
(*                num_hull_segments and the segment index i                *)
(*   buckets      the seven face lists of classification                   *)
(*   bk           the bucket being dispatched                              *)
(*   arms, asyms, classed, calls, passes                                   *)
(*                records of what hull growth, the asymmetry pass,         *)
(*                classification, the detail generators and the symmetry   *)
(*                passes did                                               *)
(*   run, first   the number of this run and the outcome of the one before *)
(***************************************************************************)
VARIABLES parms, pc, st, scale_vector, snap, it, arm, buckets, bk,
          arms, asyms, classed, calls, passes, run, first

vars == <<parms, pc, st, scale_vector, snap, it, arm, buckets, bk,
          arms, asyms, classed, calls, passes, run, first>>

Seeds == 0..NumSeeds                    \* 0 stands for the empty string
HullCounts == 0..MaxHullSeg             \* IntProperty(min = 0)
AsymCounts == 1..MaxAsymSeg             \* IntProperty(min = 1)
Aligns == {"nothing", "world", "view", "cursor"}     \* ALIGN_TO

\* the segment-count parameters explored: each pair of bounds is varied
\* over its whole range with the other pair fixed
SegmentChoices ==
  { <<a, b, 1, 1>> : a \in HullCounts, b \in HullCounts }
  \cup { <<1, 1, c, d>> : c \in AsymCounts, d \in AsymCounts }

ParmChoices ==
  { [geom_ranseed |-> seed,
     num_hull_segments_min |-> sc[1],
     num_hull_segments_max |-> sc[2],
     create_asymmetry_segments |-> ca,
     num_asymmetry_segments_min |-> sc[3],
     num_asymmetry_segments_max |-> sc[4],
     create_face_detail |-> fd,
     allow_horizontal_symmetry |-> hs,
     allow_vertical_symmetry |-> vs,
     create_materials |-> cm,
     add_bevel_modifier |-> bv,
     align |-> al,
     mat_ranseed |-> 0,
     hull_base_colour |-> <<50, 50, 50>>,
     hull_emissive_colour |-> <<75, 75, 75>>,
     glow_colour |-> <<100, 100, 100>>] :
     seed \in Seeds, sc \in SegmentChoices, ca \in BOOLEAN, fd \in BOOLEAN,
     hs \in BOOLEAN, vs \in BOOLEAN, cm \in BOOLEAN, bv \in BOOLEAN,
     al \in Aligns }

\* create_materials and add_bevel_modifier are switched off, and align is
\* moved from its default, with the geometry parameters fixed
ParmSpace ==
  { p \in ParmChoices :
      \/ p.create_materials /\ p.add_bevel_modifier /\ p.align = "nothing"
      \/ /\ p.num_hull_segments_min = 1 /\ p.num_hull_segments_max = 1
         /\ p.num_asymmetry_segments_min = 1 /\ p.num_asymmetry_segments_max = 1
         /\ p.create_asymmetry_segments /\ p.create_face_detail
         /\ ~p.allow_vertical_symmetry }

NoBuckets ==
  [engine |-> <<>>, grid |-> <<>>, antenna |-> <<>>, weapon |-> <<>>,
   sphere |-> <<>>, disc |-> <<>>, cylinder |-> <<>>]
NoArm == [face |-> 0, hull_segment_length |-> 0, num_hull_segments |-> 0, i |-> 0]
EmptyContext ==
  [faces |-> <<>>, elen |-> <<>>, verts |-> [c \in Cells |-> 0], frags |-> <<>>,
   rng |-> 0, nd |-> 0, err |-> FALSE, materials |-> <<>>,
   bevel |-> 0, orient |-> <<>>, colours |-> <<>>]

Init ==
  /\ parms \in ParmSpace
  /\ pc = "start"
  /\ st = EmptyContext
  /\ scale_vector = <<0, 0, 0>>
  /\ snap = <<>>
  /\ it = 0
  /\ arm = NoArm
  /\ buckets = NoBuckets
  /\ bk = 0
  /\ arms = <<>>
  /\ asyms = <<>>
  /\ classed = <<>>
  /\ calls = <<>>
  /\ passes = <<>>
  /\ run = 1
  /\ first = [done |-> FALSE]

\* where an action leaves the program counter: an exception ends the call
Goto(g1, next) == IF g1.err THEN "crashed" ELSE next

(***************************************************************************)
(* geom_random = Random(); seed; create the cube and scale it by three     *)
(* draws from uniform(0.75, 2.0); then for face in bm.faces[:] ...         *)
(***************************************************************************)
\* the seed box of a call with geometry seed seed and OS entropy e
SeedBox(seed, e) ==
  LET g0 == [EmptyContext EXCEPT !.rng = NewRandom(seed, e)]
      sx == Uniform(Val(g0), 75, 200)
      g1 == Adv(g0)
      sy == Uniform(Val(g1), 75, 200)
      g2 == Adv(g1)
      sz == Uniform(Val(g2), 75, 200)
  IN [g |-> CreateCube(Adv(g2), sx, sy, sz), scale_vector |-> <<sx, sy, sz>>]

Begin ==
  /\ pc = "start"
  /\ \E e \in 0..MaxEntropy :
       LET b == SeedBox(parms.geom_ranseed, e)
       IN /\ st' = b.g
          /\ scale_vector' = b.scale_vector
          /\ snap' = AllFaces(b.g)
  /\ it' = 1
  /\ pc' = "hull"
  /\ UNCHANGED <<parms, arm, buckets, bk, arms, asyms, classed, calls, passes,
                 run, first>>

(***************************************************************************)
(* Hull growth: for face in bm.faces[:] : if abs(face.normal.x) > 0.5 ...  *)
(***************************************************************************)
\* num_hull_segments, from the draw v (consumed only when max >= min)
HullBoundsOrdered(p) == p.num_hull_segments_max >= p.num_hull_segments_min
\* (NumHullSegmentsUsesMax: the variant that falls back on the other bound)
NumHullSegmentsUsesMax(p, v) ==
  IF HullBoundsOrdered(p)
  THEN RandInt(v, p.num_hull_segments_min, p.num_hull_segments_max)
  ELSE p.num_hull_segments_max
NumHullSegments(p, v) ==
  IF HullBoundsOrdered(p)
  THEN RandInt(v, p.num_hull_segments_min, p.num_hull_segments_max)
  ELSE p.num_hull_segments_min

\* a face of the snapshot that is no end cap is passed over
HullSkipFace ==
  /\ pc = "hull"
  /\ it <= Len(snap)
  /\ Axis(st.faces[snap[it]].dir) # "x"
  /\ it' = it + 1
  /\ UNCHANGED <<parms, pc, st, scale_vector, snap, arm, buckets, bk,
                 arms, asyms, classed, calls, passes, run, first>>

\* variant: any face of the snapshot starts an arm
HullArmStartAny ==
  /\ pc = "hull"
  /\ it <= Len(snap)
  /\ LET len == Uniform(Val(st), 30, 100)
         g1 == Adv(st)
         num == NumHullSegments(parms, Val(g1))
         g2 == IF HullBoundsOrdered(parms) THEN Adv(g1) ELSE g1
     IN /\ st' = g2
        /\ arm' = [face |-> snap[it], hull_segment_length |-> len,
                   num_hull_segments |-> num, i |-> 0]
        /\ arms' = Append(arms, [face |-> snap[it], planned |-> num, done |-> 0,
                                 ribs |-> <<>>])
        /\ IF num > 0
           THEN pc' = "segment" /\ it' = it
           ELSE pc' = "hull" /\ it' = it + 1
  /\ UNCHANGED <<parms, scale_vector, snap, buckets, bk, asyms, classed, calls,
                 passes, run, first>>

\* variant: the last index of the range is looked up before the loop
HullArmStartLastFirst ==
  /\ pc = "hull"
  /\ it <= Len(snap)
  /\ Axis(st.faces[snap[it]].dir) = "x"
  /\ LET len == Uniform(Val(st), 30, 100)
         g1 == Adv(st)
         num == NumHullSegments(parms, Val(g1))
         g2 == IF HullBoundsOrdered(parms) THEN Adv(g1) ELSE g1
     IN /\ st' = [g2 EXCEPT !.err = num <= 0]
        /\ arm' = [face |-> snap[it], hull_segment_length |-> len,
                   num_hull_segments |-> num, i |-> 0]
        /\ arms' = Append(arms, [face |-> snap[it], planned |-> num, done |-> 0,
                                 ribs |-> <<>>])
        /\ IF num > 0
           THEN pc' = "segment" /\ it' = it
           ELSE pc' = "crashed" /\ it' = it
  /\ UNCHANGED <<parms, scale_vector, snap, buckets, bk, asyms, classed, calls,
                 passes, run, first>>
\* an end cap starts an arm: draw its segment length and segment count
HullArmStart ==
  /\ pc = "hull"
  /\ it <= Len(snap)
  /\ Axis(st.faces[snap[it]].dir) = "x"
  /\ LET len == Uniform(Val(st), 30, 100)
         g1 == Adv(st)
         num == NumHullSegments(parms, Val(g1))
         g2 == IF HullBoundsOrdered(parms) THEN Adv(g1) ELSE g1
     IN /\ st' = g2
        /\ arm' = [face |-> snap[it], hull_segment_length |-> len,
                   num_hull_segments |-> num, i |-> 0]
        /\ arms' = Append(arms, [face |-> snap[it], planned |-> num, done |-> 0,
                                 ribs |-> <<>>])
        /\ IF num > 0
           THEN pc' = "segment" /\ it' = it
           ELSE pc' = "hull" /\ it' = it + 1
  /\ UNCHANGED <<parms, scale_vector, snap, buckets, bk, asyms, classed, calls,
                 passes, run, first>>

\* Maybe apply some scaling
HullMaybeScale(g0, f, is_last) ==
  LET g1 == Adv(g0)
      sy == Uniform(Val(g1), 120, 150)
      g2 == Adv(g1)
      sz == Uniform(Val(g2), 120, 150)
      g3 == Adv(g2)
      invert == is_last \/ Above(Val(g3), 50)
      g4 == IF is_last THEN g3 ELSE Adv(g3)
  IN IF ~Above(Val(g0), 50) THEN g1
     ELSE IF invert THEN scale_face(g4, f, 100, 10000 \div sy, 10000 \div sz)
     ELSE scale_face(g4, f, 100, sy, sz)

\* Maybe apply some sideways translation
HullMaybeTranslate(g0, f, len, sz) ==
  LET g1 == Adv(g0)
      t == (Uniform(Val(g1), 10, 40) * sz * len) \div 10000
      g2 == Adv(g1)
      g3 == Adv(g2)
  IN IF ~Above(Val(g0), 50) THEN g1
     ELSE translate_z(g3, f, IF Above(Val(g2), 50) THEN 0 - t ELSE t)

\* Maybe add some rotation around Y axis
HullMaybeRotate(g0, f) ==
  LET g1 == Adv(g0)
      g2 == Adv(g1)
  IN IF ~Above(Val(g0), 50) THEN g1
     ELSE rotate_y(g2, f, IF Above(Val(g1), 50) THEN -5 ELSE 5)

\* the outcome r of a ribbed segment, with the record of its distances
RibbedSegment(r, translate_forwards, num_ribs) ==
  [g |-> r.g, face |-> r.face,
   ribs |-> <<[translate_forwards |-> translate_forwards, num_ribs |-> num_ribs,
               dists |-> r.dists]>>]

\* variant: the scaling is applied to the face the segment began with
HullSegmentBodyStale(g0, f, len, sz, is_last) ==
  LET val == Val(g0)
      g1 == Adv(g0)
      \* val > 0.1 : extrude, with some random deviations
      a == extrude_face(g1, f, len, "hull")
      a1 == Adv(a.g)
      b == IF Above(Val(a.g), 75)
           THEN extrude_face(a1, a.face, (len * 25) \div 100, "hull")
           ELSE [g |-> a1, face |-> a.face]
      c == HullMaybeScale(b.g, f, is_last)
      d == HullMaybeTranslate(c, b.face, len, sz)
      e == HullMaybeRotate(d, b.face)
      \* val <= 0.1 : a ribbed section
      rib_scale == Uniform(Val(g1), 75, 95)
      r1 == Adv(g1)
      num_ribs == RandInt(Val(r1), 2, 4)
      r2 == Adv(r1)
  IN IF Above(val, 10) THEN [g |-> e, face |-> b.face, ribs |-> <<>>]
     ELSE RibbedSegment(ribbed_extrude_face(r2, f, len, num_ribs, rib_scale),
                        len, num_ribs)

\* the body of "for i in hull_segment_range", on face f
HullSegmentBody(g0, f, len, sz, is_last) ==
  LET val == Val(g0)
      g1 == Adv(g0)
      \* val > 0.1 : extrude, with some random deviations
      a == extrude_face(g1, f, len, "hull")
      a1 == Adv(a.g)
      b == IF Above(Val(a.g), 75)
           THEN extrude_face(a1, a.face, (len * 25) \div 100, "hull")
           ELSE [g |-> a1, face |-> a.face]
      c == HullMaybeScale(b.g, b.face, is_last)
      d == HullMaybeTranslate(c, b.face, len, sz)
      e == HullMaybeRotate(d, b.face)
      \* val <= 0.1 : a ribbed section
      rib_scale == Uniform(Val(g1), 75, 95)
      r1 == Adv(g1)
      num_ribs == RandInt(Val(r1), 2, 4)
      r2 == Adv(r1)
  IN IF Above(val, 10) THEN [g |-> e, face |-> b.face, ribs |-> <<>>]
     ELSE RibbedSegment(ribbed_extrude_face(r2, f, len, num_ribs, rib_scale),
                        len, num_ribs)

HullSegment ==
  /\ pc = "segment"
  /\ arm.i < arm.num_hull_segments
  /\ LET is_last == arm.i = arm.num_hull_segments - 1
         r == HullSegmentBody(st, arm.face, arm.hull_segment_length,
                              scale_vector[3], is_last)
     IN /\ st' = r.g
        /\ arm' = [arm EXCEPT !.face = r.face, !.i = @ + 1]
        /\ arms' = [arms EXCEPT ![Len(arms)].done = @ + 1,
                                ![Len(arms)].ribs = @ \o r.ribs]
        /\ IF is_last
           THEN pc' = Goto(r.g, "hull") /\ it' = it + 1
           ELSE pc' = Goto(r.g, "segment") /\ it' = it
  /\ UNCHANGED <<parms, scale_vector, snap, buckets, bk, asyms, classed, calls,
                 passes, run, first>>

(***************************************************************************)
(* The asymmetry pass: if create_asymmetry_segments and max >= min :       *)
(* for face in bm.faces[:] : if aspect <= 4 and random() > 0.85 : ...      *)
(***************************************************************************)
\* (AsymEnabledIgnoresBounds: the variant without the test of the bounds)
AsymEnabledIgnoresBounds(p) == p.create_asymmetry_segments
AsymEnabled(p) ==
  /\ p.create_asymmetry_segments
  /\ p.num_asymmetry_segments_max >= p.num_asymmetry_segments_min

\* the length of a chain, from the draw v
\* (NumAsymSegmentsOneMore: the variant with randint in place of randrange)
NumAsymSegmentsOneMore(p, v) ==
  RandInt(v, p.num_asymmetry_segments_min, p.num_asymmetry_segments_max + 1)
NumAsymSegments(p, v) ==
  RandInt(v, p.num_asymmetry_segments_min, p.num_asymmetry_segments_max)

\* "for i in range(n)": n extrusions by hull_piece_length, each maybe scaled;
\* lens collects the distances the chain extruded by
RECURSIVE AsymChain(_, _, _, _, _)
AsymChain(g0, f, len, n, rec) ==
  IF n <= 0 \/ g0.err THEN [g |-> g0, face |-> f, rec |-> rec]
  ELSE LET a == extrude_face(g0, f, len, "asym")
           g1 == Adv(a.g)
           s == 10000 \div Uniform(Val(g1), 110, 150)
           g2 == Adv(g1)
           g3 == IF Above(Val(a.g), 25) THEN scale_face(g2, a.face, s, s, s) ELSE g1
       IN AsymChain(g3, a.face, len, n - 1,
                    [rec EXCEPT !.done = @ + 1, !.lens = @ \cup {len}])

\* the asymmetry test of a face: the stream is drawn from only when the
\* aspect ratio passes
AsymAspectLimit == 4
\* (AsymAspectOkAlways: the variant without the aspect test)
AsymAspectOkAlways(g0, f) == TRUE
AsymAspectOk(g0, f) == ~AspectAbove(get_aspect_ratio(g0, f), AsymAspectLimit)

\* the body of the loop for face f
AsymFaceBody(g0, f, p) ==
  LET ok == AsymAspectOk(g0, f)
      g1 == IF ok THEN Adv(g0) ELSE g0
      start == ok /\ Above(Val(g0), 85)
      len == Uniform(Val(g1), 10, 40)
      g2 == Adv(g1)
      n == NumAsymSegments(p, Val(g2))
      g3 == Adv(g2)
      rec0 == [face |-> f, aspect |-> get_aspect_ratio(g0, f), started |-> start,
               len |-> IF start THEN len ELSE 0,
               planned |-> IF start THEN n ELSE 0, done |-> 0, lens |-> {},
               draws |-> 0]
      r == IF start THEN AsymChain(g3, f, len, n, rec0)
           ELSE [g |-> g1, face |-> f, rec |-> rec0]
  IN [g |-> r.g, rec |-> [r.rec EXCEPT !.draws = r.g.nd - g0.nd]]

\* the pass is entered, or skipped altogether
AsymBegin ==
  /\ pc = "hull"
  /\ it > Len(snap)
  /\ IF AsymEnabled(parms)
     THEN pc' = "asym" /\ snap' = AllFaces(st) /\ it' = 1
     ELSE pc' = "detail" /\ snap' = <<>> /\ it' = 0
  /\ UNCHANGED <<parms, st, scale_vector, arm, buckets, bk, arms, asyms, classed,
                 calls, passes, run, first>>

AsymFace ==
  /\ pc = "asym"
  /\ it <= Len(snap)
  /\ LET r == AsymFaceBody(st, snap[it], parms)
     IN /\ st' = r.g
        /\ asyms' = Append(asyms, r.rec)
        /\ pc' = Goto(r.g, "asym")
  /\ it' = it + 1
  /\ UNCHANGED <<parms, scale_vector, snap, arm, buckets, bk, arms, classed,
                 calls, passes, run, first>>

AsymEnd ==
  /\ pc = "asym"
  /\ it > Len(snap)
  /\ pc' = "detail"
  /\ snap' = <<>>
  /\ it' = 0
  /\ UNCHANGED <<parms, st, scale_vector, arm, buckets, bk, arms, asyms, classed,
                 calls, passes, run, first>>

(***************************************************************************)
(* Geometry built by the detail generators is kept as fragments: n faces   *)
(* of one material, made by generator kind on face by.                     *)
(***************************************************************************)
Frag(kind, n, mat, p, by) == [kind |-> kind, n |-> n, mat |-> mat, pos |-> p, by |-> by]

\* bmesh.ops.create_cone(bm, cap_ends, segments, ...): a tube of segments
\* quads between two rings of segments vertices, and two caps with cap_ends
ConeFaces(segments, cap_ends) == segments + (IF cap_ends THEN 2 ELSE 0)
ConeVerts(segments) == 2 * segments
create_cone(g, kind, f, segments, cap_ends, mat) ==
  [g EXCEPT
     !.frags = Append(@, Frag(kind, ConeFaces(segments, cap_ends), mat,
                              g.faces[f].pos, f)),
     !.verts = AddVerts(@, g.faces[f].pos, ConeVerts(segments))]

\* bmesh.ops.create_icosphere(bm, subdivisions = 3, ...)
IcoFaces == 320
IcoVerts == 162
create_icosphere(g, kind, f, mat) ==
  [g EXCEPT
     !.frags = Append(@, Frag(kind, IcoFaces, mat, g.faces[f].pos, f)),
     !.verts = AddVerts(@, g.faces[f].pos, IcoVerts)]

(***************************************************************************)
(* bmesh.ops.subdivide_edges(bm, edges = face.edges[:], cuts = c,          *)
(* use_grid_fill = True): every edge of the face is cut into c + 1 pieces  *)
(* and the face is filled with a grid of (c + 1) x (c + 1) cells.  A       *)
(* neighbouring face that shares a cut edge gains the c new vertices and   *)
(* edges in its own loop: it is not filled, and stays a face of more than  *)
(* four sides.                                                             *)
(***************************************************************************)
RECURSIVE SplitLoop(_, _, _, _, _)
\* the loop es of a neighbour, with the new pieces after each cut edge
SplitLoop(es, F, cuts, nl, k) ==
  IF k > Len(es) THEN <<>>
  ELSE LET js == { j \in 1..Len(F.edges) : F.edges[j] = es[k] }
           j == CHOOSE i \in js : TRUE
       IN <<es[k]>>
          \o (IF js = {} THEN <<>>
              ELSE [i \in 1..cuts |-> nl + (j - 1) * cuts + i])
          \o SplitLoop(es, F, cuts, nl, k + 1)

\* the directions of the edges of that loop: a piece lies where its edge lay
RECURSIVE SplitDirs(_, _, _, _, _)
SplitDirs(es, sd, F, cuts, k) ==
  IF k > Len(es) THEN <<>>
  ELSE <<sd[k]>>
       \o (IF \E j \in 1..Len(F.edges) : F.edges[j] = es[k]
           THEN [i \in 1..cuts |-> sd[k]] ELSE <<>>)
       \o SplitDirs(es, sd, F, cuts, k + 1)

SubdivideEdges(g, f, cuts) ==
  LET F == g.faces[f]
      ne == Len(F.edges)
      nl == Len(g.elen)
      ids == { F.edges[k] : k \in 1..ne }
      piece(e) == g.elen[e] \div (cuts + 1)
  IN [g EXCEPT
        !.elen = [e \in 1..nl |-> IF e \in ids THEN piece(e) ELSE g.elen[e]]
                 \o [i \in 1..(ne * cuts) |-> piece(F.edges[((i - 1) \div cuts) + 1])],
        !.faces = [h \in 1..Len(g.faces) |->
                     IF h # f /\ g.faces[h].valid
                     THEN [g.faces[h] EXCEPT
                             !.edges = SplitLoop(@, F, cuts, nl, 1),
                             !.sd = SplitDirs(g.faces[h].edges, @, F, cuts, 1)]
                     ELSE g.faces[h]],
        !.verts = AddVerts(@, F.pos, ne * cuts + cuts * cuts)]

\* one cell of the grid of face F, as a mesh of its own
CellDirs(F) ==
  LET ks == { k \in 1..Len(F.sd) : Axis(F.sd[k]) # Axis(F.sd[1]) }
      k2 == CHOOSE k \in ks : \A j \in ks : k <= j
  IN IF ks = {} THEN <<F.sd[1], F.sd[1], Opp(F.sd[1]), Opp(F.sd[1])>>
     ELSE <<F.sd[1], F.sd[k2], Opp(F.sd[1]), Opp(F.sd[k2])>>
CellContext(g, F) ==
  [EmptyContext EXCEPT
     !.faces = <<[F EXCEPT !.edges = <<1, 2, 3, 4>>, !.sd = CellDirs(F),
                           !.gen = "detail"]>>,
     !.elen = <<g.elen[F.edges[1]], g.elen[F.edges[2]],
                g.elen[F.edges[1]], g.elen[F.edges[2]]>>]

\* the faces a cell was turned into, as fragments, n cells alike
CellFrags(c, kind, n, p, by) ==
  LET count(m) == Cardinality({ h \in ValidFaces(c) : c.faces[h].mat = m })
      RECURSIVE Build(_)
      Build(m) == IF m >= N_MATERIALS THEN <<>>
                  ELSE (IF count(m) > 0 /\ n > 0
                        THEN <<Frag(kind, n * count(m), m, p, by)>> ELSE <<>>)
                       \o Build(m + 1)
  IN Build(0)

\* face.material_index = m, for every face of the list
RECURSIVE SetMaterial(_, _, _)
SetMaterial(g, list, m) ==
  IF list = <<>> THEN g
  ELSE SetMaterial([g EXCEPT !.faces[Head(list)].mat = m], Tail(list), m)

(***************************************************************************)
(* The detail generators.  Each takes the context and a face handle and    *)
(* returns the context after the call.                                     *)
(***************************************************************************)
\* what add_exhaust_to_face does to one grid cell of a rear face
ExhaustCell(c, exhaust_length, scale_outer, scale_inner) ==
  LET c1 == [c EXCEPT !.faces[1].mat = HULL_DARK]
      a == extrude_face(c1, 1, exhaust_length, "detail")
      a2 == scale_face(a.g, a.face, scale_outer, scale_outer, scale_outer)
      b == extrude_face(a2, a.face, 0 - ((exhaust_length * 9) \div 10), "detail")
      b2 == SetMaterial(b.g, b.list, EXHAUST_BURN)
  IN scale_face(b2, b.face, scale_inner, scale_inner, scale_inner)

add_exhaust_to_face(g, f) ==
  LET F == g.faces[f]
      upper == IntFourMinus(get_aspect_ratio(g, f))
      num_cuts == RandInt(Val(g), 1, upper)
      g1 == SubdivideEdges(Adv(g), f, num_cuts)
      exhaust_length == Uniform(Val(g1), 10, 20)
      g2 == Adv(g1)
      scale_outer == 10000 \div Uniform(Val(g2), 130, 160)
      g3 == Adv(g2)
      scale_inner == 10000 \div Uniform(Val(g3), 105, 110)
      g4 == Adv(g3)
      cells == (num_cuts + 1) * (num_cuts + 1)
      c == ExhaustCell(CellContext(g1, F), exhaust_length, scale_outer, scale_inner)
  IN IF ~F.valid THEN g
     ELSE IF upper < 1 THEN Fail(g)                \* randint(1, upper): empty range
     ELSE IF ~is_rear_face(g1, f) THEN g4
     ELSE [g4 EXCEPT
             !.faces[f].valid = FALSE,
             !.frags = @ \o CellFrags(c, "exhaust", cells, F.pos, f),
             !.verts = AddVerts(@, F.pos, cells * NumVerts(c.verts)),
             !.err = c.err]

\* what add_grid_to_face does to one grid cell
GridCell(c, grid_length, material_index) ==
  LET a == extrude_face(c, 1, grid_length, "detail")
      side == Axis(a.g.faces[a.face].n) # "z"      \* abs(face.normal.z) < 0.707
      a2 == IF side THEN SetMaterial(a.g, a.list, material_index) ELSE a.g
  IN scale_face(a2, a.face, 80, 80, 80)

\* the loop over the cells: one draw each; the result counts the cells that
\* drew HULL_LIGHTS
RECURSIVE GridDraws(_, _, _)
GridDraws(g, n, lights) ==
  IF n <= 0 \/ g.err THEN [g |-> g, lights |-> lights]
  ELSE GridDraws(Adv(g), n - 1, lights + (IF Above(Val(g), 50) THEN 1 ELSE 0))

add_grid_to_face(g, f) ==
  LET F == g.faces[f]
      cuts == RandInt(Val(g), 2, 4)
      g1 == SubdivideEdges(Adv(g), f, cuts)
      grid_length == Uniform(Val(g1), 3, 15)
      g2 == Adv(g1)
      cells == (cuts + 1) * (cuts + 1)
      d == GridDraws(g2, cells, 0)
      cl == GridCell(CellContext(g1, F), grid_length, HULL_LIGHTS)
      ch == GridCell(CellContext(g1, F), grid_length, HULL)
  IN IF ~F.valid THEN g
     ELSE [d.g EXCEPT
             !.faces[f].valid = FALSE,
             !.frags = @ \o CellFrags(cl, "grid", d.lights, F.pos, f)
                         \o CellFrags(ch, "grid", cells - d.lights, F.pos, f),
             !.verts = AddVerts(@, F.pos, cells * NumVerts(cl.verts)),
             !.err = cl.err \/ ch.err]

\* n cones alike
RECURSIVE Cones(_, _, _, _, _, _, _)
Cones(g, kind, f, n, segments, cap_ends, mat) ==
  IF n <= 0 \/ g.err THEN g
  ELSE Cones(create_cone(g, kind, f, segments, cap_ends, mat), kind, f, n - 1,
             segments, cap_ends, mat)

add_cylinders_to_face(g, f) ==
  LET F == g.faces[f]
      horizontal_step == RandInt(Val(g), 1, 3)
      g1 == Adv(g)
      vertical_step == RandInt(Val(g1), 1, 3)
      g2 == Adv(g1)
      num_segments == RandInt(Val(g2), 6, 12)
      g3 == Adv(g2)
  IN IF ~F.valid \/ Len(F.edges) < 4 THEN g
     ELSE Cones(g3, "cylinder", f, horizontal_step * vertical_step, num_segments,
                TRUE, HULL)

\* one turret: a draw for its orientation, foundation and two guards, a
\* draw for the upward angle, housing and two barrels
Turret(g, f) ==
  LET g1 == Cones(Adv(g), "weapon", f, 3, 16, TRUE, HULL)
  IN Cones(Adv(g1), "weapon", f, 3, 8, TRUE, HULL)
RECURSIVE Turrets(_, _, _)
Turrets(g, f, n) == IF n <= 0 \/ g.err THEN g ELSE Turrets(Turret(g, f), f, n - 1)

add_weapons_to_face(g, f) ==
  LET F == g.faces[f]
      horizontal_step == RandInt(Val(g), 1, 2)
      g1 == Adv(g)
      vertical_step == RandInt(Val(g1), 1, 2)
      g2 == Adv(g1)
  IN IF ~F.valid \/ Len(F.edges) < 4 THEN g
     ELSE Turrets(g2, f, horizontal_step * vertical_step)

\* (add_sphere_to_face_NoGuard: the variant without the test of is_valid)
add_sphere_to_face_NoGuard(g, f) ==
  create_icosphere(Adv(Adv(g)), "sphere", f, HULL)
add_sphere_to_face(g, f) ==
  LET F == g.faces[f]
      g2 == Adv(Adv(g))                            \* sphere_size, inset
  IN IF ~F.valid THEN g
     ELSE create_icosphere(g2, "sphere", f, HULL)

\* one candidate point of the antenna grid: one draw, and with a value
\* above 0.9 six more draws, a spire and a base
AntennaPoint(g, f) ==
  LET g1 == Adv(g)
      num_segments == RandInt(Val(Adv(Adv(Adv(g1)))), 3, 6)
      g5 == Adv(Adv(Adv(Adv(g1))))         \* depth, depth_short, base_radius, segments
      spire == create_cone(g5, "antenna", f, num_segments, FALSE, HULL_METALLIC)
      g7 == Adv(Adv(spire))                        \* radius1, radius2
  IN IF ~Above(Val(g), 90) THEN g1
     ELSE create_cone(g7, "antenna", f, num_segments, TRUE, HULL_METALLIC)
\* "for v in range(vertical_step)" and "for h in range(horizontal_step)"
RECURSIVE AntennaColumn(_, _, _)
AntennaColumn(g, f, v) ==
  IF v <= 0 \/ g.err THEN g ELSE AntennaColumn(AntennaPoint(g, f), f, v - 1)
RECURSIVE AntennaGrid(_, _, _, _)
AntennaGrid(g, f, h, v) ==
  IF h <= 0 \/ g.err THEN g ELSE AntennaGrid(AntennaColumn(g, f, v), f, h - 1, v)

add_surface_antenna_to_face(g, f) ==
  LET F == g.faces[f]
      horizontal_step == RandInt(Val(g), 4, 10)
      g1 == Adv(g)
      vertical_step == RandInt(Val(g1), 4, 10)
      g2 == Adv(g1)
  IN IF ~F.valid \/ Len(F.edges) < 4 THEN g
     ELSE AntennaGrid(g2, f, horizontal_step, vertical_step)

\* (add_disc_to_face_BadSlot: the variant whose glow material is one past
\* the last slot)
add_disc_to_face_BadSlot(g, f) ==
  LET F == g.faces[f]
      g1 == create_cone(g, "disc", f, 32, TRUE, HULL)
  IN IF ~F.valid THEN g
     ELSE create_cone(g1, "disc", f, 32, FALSE, GLOW_DISC + 1)
add_disc_to_face(g, f) ==
  LET F == g.faces[f]
      g1 == create_cone(g, "disc", f, 32, TRUE, HULL)
  IN IF ~F.valid THEN g
     ELSE create_cone(g1, "disc", f, 32, FALSE, GLOW_DISC)

(***************************************************************************)
(* Classification: if create_face_detail : for face in bm.faces[:] : ...   *)
(***************************************************************************)
\* face.normal.dot(face.calc_center_bounds()) > 0
FacesOutward(F) == F.dir \in Dirs /\ Sgn(F.dir) * F.pos[Axis(F.dir)] > 0

DetailAspectLimit == 3
\* (DetailAspectOkAlways: the variant without the aspect test)
DetailAspectOkAlways(g, f) == TRUE
DetailAspectOk(g, f) == ~AspectAbove(get_aspect_ratio(g, f), DetailAspectLimit)

\* variant: a rear face goes to the engine list on its draw alone
ClassifyEngineByDraw(F, val, b) ==
  IF F.dir = "-x" THEN                             \* is_rear_face(face)
    (IF Above(val, 75) THEN [bucket |-> "engine", mat |-> F.mat]
     ELSE IF Above(val, 50) THEN [bucket |-> "cylinder", mat |-> F.mat]
     ELSE IF Above(val, 25) THEN [bucket |-> "grid", mat |-> F.mat]
     ELSE [bucket |-> "none", mat |-> HULL_LIGHTS])
  ELSE IF F.dir = "+x" THEN                        \* front face
    (IF FacesOutward(F) /\ Above(val, 70)
     THEN [bucket |-> "antenna", mat |-> HULL_LIGHTS]
     ELSE IF Above(val, 40) THEN [bucket |-> "grid", mat |-> F.mat]
     ELSE [bucket |-> "none", mat |-> HULL_LIGHTS])
  ELSE IF F.dir = "+z" THEN                        \* top face
    (IF FacesOutward(F) /\ Above(val, 70) THEN [bucket |-> "antenna", mat |-> F.mat]
     ELSE IF Above(val, 60) THEN [bucket |-> "grid", mat |-> F.mat]
     ELSE IF Above(val, 30) THEN [bucket |-> "cylinder", mat |-> F.mat]
     ELSE [bucket |-> "none", mat |-> F.mat])
  ELSE IF F.dir = "-z" THEN                        \* bottom face
    (IF Above(val, 75) THEN [bucket |-> "disc", mat |-> F.mat]
     ELSE IF Above(val, 50) THEN [bucket |-> "grid", mat |-> F.mat]
     ELSE IF Above(val, 25) THEN [bucket |-> "weapon", mat |-> F.mat]
     ELSE [bucket |-> "none", mat |-> F.mat])
  ELSE IF Axis(F.dir) = "y" THEN                   \* side face
    (IF b.weapon = <<>> \/ Above(val, 75) THEN [bucket |-> "weapon", mat |-> F.mat]
     ELSE IF Above(val, 60) THEN [bucket |-> "grid", mat |-> F.mat]
     ELSE IF Above(val, 40) THEN [bucket |-> "sphere", mat |-> F.mat]
     ELSE [bucket |-> "none", mat |-> HULL_LIGHTS])
  ELSE [bucket |-> "none", mat |-> F.mat]

\* variant: a bottom face left without a bucket is given HULL_LIGHTS too
ClassifyLightsBottom(F, val, b) ==
  IF F.dir = "-x" THEN                             \* is_rear_face(face)
    (IF b.engine = <<>> \/ Above(val, 75) THEN [bucket |-> "engine", mat |-> F.mat]
     ELSE IF Above(val, 50) THEN [bucket |-> "cylinder", mat |-> F.mat]
     ELSE IF Above(val, 25) THEN [bucket |-> "grid", mat |-> F.mat]
     ELSE [bucket |-> "none", mat |-> HULL_LIGHTS])
  ELSE IF F.dir = "+x" THEN                        \* front face
    (IF FacesOutward(F) /\ Above(val, 70)
     THEN [bucket |-> "antenna", mat |-> HULL_LIGHTS]
     ELSE IF Above(val, 40) THEN [bucket |-> "grid", mat |-> F.mat]
     ELSE [bucket |-> "none", mat |-> HULL_LIGHTS])
  ELSE IF F.dir = "+z" THEN                        \* top face
    (IF FacesOutward(F) /\ Above(val, 70) THEN [bucket |-> "antenna", mat |-> F.mat]
     ELSE IF Above(val, 60) THEN [bucket |-> "grid", mat |-> F.mat]
     ELSE IF Above(val, 30) THEN [bucket |-> "cylinder", mat |-> F.mat]
     ELSE [bucket |-> "none", mat |-> F.mat])
  ELSE IF F.dir = "-z" THEN                        \* bottom face
    (IF Above(val, 75) THEN [bucket |-> "disc", mat |-> F.mat]
     ELSE IF Above(val, 50) THEN [bucket |-> "grid", mat |-> F.mat]
     ELSE IF Above(val, 25) THEN [bucket |-> "weapon", mat |-> F.mat]
     ELSE [bucket |-> "none", mat |-> HULL_LIGHTS])
  ELSE IF Axis(F.dir) = "y" THEN                   \* side face
    (IF b.weapon = <<>> \/ Above(val, 75) THEN [bucket |-> "weapon", mat |-> F.mat]
     ELSE IF Above(val, 60) THEN [bucket |-> "grid", mat |-> F.mat]
     ELSE IF Above(val, 40) THEN [bucket |-> "sphere", mat |-> F.mat]
     ELSE [bucket |-> "none", mat |-> HULL_LIGHTS])
  ELSE [bucket |-> "none", mat |-> F.mat]

\* the decision for a face with draw val, given the buckets so far:
\* the bucket it is appended to ("none" for no bucket) and its material
Classify(F, val, b) ==
  IF F.dir = "-x" THEN                             \* is_rear_face(face)
    (IF b.engine = <<>> \/ Above(val, 75) THEN [bucket |-> "engine", mat |-> F.mat]
     ELSE IF Above(val, 50) THEN [bucket |-> "cylinder", mat |-> F.mat]
     ELSE IF Above(val, 25) THEN [bucket |-> "grid", mat |-> F.mat]
     ELSE [bucket |-> "none", mat |-> HULL_LIGHTS])
  ELSE IF F.dir = "+x" THEN                        \* front face
    (IF FacesOutward(F) /\ Above(val, 70)
     THEN [bucket |-> "antenna", mat |-> HULL_LIGHTS]
     ELSE IF Above(val, 40) THEN [bucket |-> "grid", mat |-> F.mat]
     ELSE [bucket |-> "none", mat |-> HULL_LIGHTS])
  ELSE IF F.dir = "+z" THEN                        \* top face
    (IF FacesOutward(F) /\ Above(val, 70) THEN [bucket |-> "antenna", mat |-> F.mat]
     ELSE IF Above(val, 60) THEN [bucket |-> "grid", mat |-> F.mat]
     ELSE IF Above(val, 30) THEN [bucket |-> "cylinder", mat |-> F.mat]
     ELSE [bucket |-> "none", mat |-> F.mat])
  ELSE IF F.dir = "-z" THEN                        \* bottom face
    (IF Above(val, 75) THEN [bucket |-> "disc", mat |-> F.mat]
     ELSE IF Above(val, 50) THEN [bucket |-> "grid", mat |-> F.mat]
     ELSE IF Above(val, 25) THEN [bucket |-> "weapon", mat |-> F.mat]
     ELSE [bucket |-> "none", mat |-> F.mat])
  ELSE IF Axis(F.dir) = "y" THEN                   \* side face
    (IF b.weapon = <<>> \/ Above(val, 75) THEN [bucket |-> "weapon", mat |-> F.mat]
     ELSE IF Above(val, 60) THEN [bucket |-> "grid", mat |-> F.mat]
     ELSE IF Above(val, 40) THEN [bucket |-> "sphere", mat |-> F.mat]
     ELSE [bucket |-> "none", mat |-> HULL_LIGHTS])
  ELSE [bucket |-> "none", mat |-> F.mat]

\* variant: the face is appended twice
AddToBucketTwice(b, name, f) ==
  IF name = "none" THEN b ELSE [b EXCEPT ![name] = Append(Append(@, f), f)]
\* variant: the face is put at the front of its list
AddToBucketFront(b, name, f) == IF name = "none" THEN b ELSE [b EXCEPT ![name] = <<f>> \o @]
\* engine_faces.append(face) and the like
AddToBucket(b, name, f) == IF name = "none" THEN b ELSE [b EXCEPT ![name] = Append(@, f)]

\* if parms.create_face_detail :
\* (DetailEnabledAlways: the variant without the test of the flag)
DetailEnabledAlways(p) == TRUE
DetailEnabled(p) == p.create_face_detail

DetailBegin ==
  /\ pc = "detail"
  /\ IF DetailEnabled(parms)
     THEN pc' = "classify" /\ snap' = AllFaces(st) /\ it' = 1
     ELSE pc' = "symmetry_h" /\ snap' = <<>> /\ it' = 0
  /\ buckets' = NoBuckets
  /\ UNCHANGED <<parms, st, scale_vector, arm, bk, arms, asyms, classed, calls,
                 passes, run, first>>

\* variant: the draw is made before the aspect test
ClassifySkipAfterDraw ==
  /\ pc = "classify"
  /\ it <= Len(snap)
  /\ ~DetailAspectOk(st, snap[it])
  /\ classed' = Append(classed, [face |-> snap[it],
                                 aspect |-> get_aspect_ratio(st, snap[it]),
                                 draws |-> Adv(st).nd - st.nd, val |-> 0, bucket |-> "skipped",
                                 at |-> it, of |-> Len(snap)])
  /\ st' = Adv(st)
  /\ it' = it + 1
  /\ UNCHANGED <<parms, pc, scale_vector, snap, arm, buckets, bk, arms, asyms,
                 calls, passes, run, first>>

\* a long thin face is passed over: no draw
ClassifySkip ==
  /\ pc = "classify"
  /\ it <= Len(snap)
  /\ ~DetailAspectOk(st, snap[it])
  /\ classed' = Append(classed, [face |-> snap[it],
                                 aspect |-> get_aspect_ratio(st, snap[it]),
                                 draws |-> 0, val |-> 0, bucket |-> "skipped",
                                 at |-> it, of |-> Len(snap)])
  /\ it' = it + 1
  /\ UNCHANGED <<parms, pc, st, scale_vector, snap, arm, buckets, bk, arms, asyms,
                 calls, passes, run, first>>

ClassifyFace ==
  /\ pc = "classify"
  /\ it <= Len(snap)
  /\ DetailAspectOk(st, snap[it])
  /\ LET f == snap[it]
         c == Classify(st.faces[f], Val(st), buckets)
         g1 == [Adv(st) EXCEPT !.faces[f].mat = c.mat]
     IN /\ st' = g1
        /\ buckets' = AddToBucket(buckets, c.bucket, f)
        /\ classed' = Append(classed, [face |-> f,
                                       aspect |-> get_aspect_ratio(st, f),
                                       draws |-> g1.nd - st.nd, val |-> Val(st),
                                       bucket |-> c.bucket,
                                       at |-> it, of |-> Len(snap)])
  /\ it' = it + 1
  /\ UNCHANGED <<parms, pc, scale_vector, snap, arm, bk, arms, asyms, calls,
                 passes, run, first>>

\* variant: the loop may be left after its first face
ClassifyEndEarly ==
  /\ pc = "classify"
  /\ it > 1
  /\ pc' = "dispatch"
  /\ bk' = 1
  /\ it' = 1
  /\ snap' = <<>>
  /\ UNCHANGED <<parms, st, scale_vector, arm, buckets, arms, asyms, classed,
                 calls, passes, run, first>>

\* the end of "for face in bm.faces[:]"
ClassifyEnd ==
  /\ pc = "classify"
  /\ it > Len(snap)
  /\ pc' = "dispatch"
  /\ bk' = 1
  /\ it' = 1
  /\ snap' = <<>>
  /\ UNCHANGED <<parms, st, scale_vector, arm, buckets, arms, asyms, classed,
                 calls, passes, run, first>>

(***************************************************************************)
(* Dispatch: for face in engine_faces : add_exhaust_to_face(bm, face) ...  *)
(***************************************************************************)
BucketOrder == <<"engine", "grid", "antenna", "weapon", "sphere", "disc", "cylinder">>

\* the record of a call of generator kind on face f that took g0 to g1
CallRecord(kind, f, g0, g1) ==
  [gen |-> kind, face |-> f, valid |-> g0.faces[f].valid,
   sides |-> Len(g0.faces[f].edges), aspect |-> get_aspect_ratio(g0, f),
   draws |-> g1.nd - g0.nd,
   changed |-> <<g1.faces, g1.elen, g1.verts, g1.frags>>
               # <<g0.faces, g0.elen, g0.verts, g0.frags>>,
   failed |-> g1.err]

\* the next face of bucket k, if it is bucket k's turn
Turn(k) == pc = "dispatch" /\ bk = k /\ it <= Len(buckets[BucketOrder[k]])
Invoked(k, g1) ==
  /\ st' = g1
  /\ calls' = Append(calls, CallRecord(BucketOrder[k], buckets[BucketOrder[k]][it],
                                       st, g1))
  /\ pc' = Goto(g1, "dispatch")
  /\ it' = it + 1
  /\ UNCHANGED <<parms, scale_vector, snap, arm, buckets, bk, arms, asyms, classed,
                 passes, run, first>>

DispatchExhaust == Turn(1) /\ Invoked(1, add_exhaust_to_face(st, buckets.engine[it]))
DispatchGrid == Turn(2) /\ Invoked(2, add_grid_to_face(st, buckets.grid[it]))
DispatchAntenna ==
  Turn(3) /\ Invoked(3, add_surface_antenna_to_face(st, buckets.antenna[it]))
DispatchWeapons == Turn(4) /\ Invoked(4, add_weapons_to_face(st, buckets.weapon[it]))
DispatchSphere == Turn(5) /\ Invoked(5, add_sphere_to_face(st, buckets.sphere[it]))
DispatchDisc == Turn(6) /\ Invoked(6, add_disc_to_face(st, buckets.disc[it]))
DispatchCylinders ==
  Turn(7) /\ Invoked(7, add_cylinders_to_face(st, buckets.cylinder[it]))

\* a bucket is exhausted: on to the next one, or out of the detail stage
NextBucket ==
  /\ pc = "dispatch"
  /\ it > Len(buckets[BucketOrder[bk]])
  /\ IF bk < Len(BucketOrder)
     THEN pc' = "dispatch" /\ bk' = bk + 1 /\ it' = 1
     ELSE pc' = "symmetry_h" /\ bk' = 0 /\ it' = 0
  /\ UNCHANGED <<parms, st, scale_vector, snap, arm, buckets, arms, asyms, classed,
                 calls, passes, run, first>>

(***************************************************************************)
(* bmesh.ops.symmetrize(bm, input = everything, direction = "Y" or "Z"):   *)
(* the mesh is cut by the plane through the origin normal to the axis, the *)
(* half on one side is removed and replaced by the mirror image of the     *)
(* half on the other, kept side (positive here), and the two halves are    *)
(* welded along the plane.  A face across the plane is cut in two, with one new vertex  *)
(* on the plane for every edge that crosses it (as many as there are faces *)
(* across the plane, in a closed mesh).                                    *)
(***************************************************************************)
MirrorDir(d, axis) == IF Axis(d) = axis THEN Opp(d) ELSE d
Mirrored(F, axis) ==
  [F EXCEPT !.n = MirrorDir(@, axis), !.dir = MirrorDir(@, axis),
            !.sd = [k \in 1..Len(@) |-> MirrorDir(@[k], axis)],
            !.pos = [@ EXCEPT ![axis] = -1],
            !.gen = "mirror"]

\* the mirror images of the faces not wholly on the negative side
MirrorFaces(faces, axis) ==
  LET kept == SelectSeq(faces, LAMBDA F : F.valid /\ F.pos[axis] >= 0)
  IN [k \in 1..Len(kept) |-> Mirrored(kept[k], axis)]

\* the fragments kept, and the images of those on the positive side
MirrorFrags(frags, axis) ==
  LET pos == SelectSeq(frags, LAMBDA r : r.pos[axis] > 0)
  IN SelectSeq(frags, LAMBDA r : r.pos[axis] >= 0)
     \o [k \in 1..Len(pos) |-> [pos[k] EXCEPT !.pos = [@ EXCEPT ![axis] = -1]]]

\* the sign of a cell on the axis, and the cell of the same vertex off it
CellSign(c, axis) == IF axis = "y" THEN c[1] ELSE c[2]
CellOther(c, axis) == IF axis = "y" THEN c[2] ELSE c[1]
CellAt(s, o, axis) == IF axis = "y" THEN <<s, o>> ELSE <<o, s>>
OtherAxis(axis) == IF axis = "y" THEN "z" ELSE "y"

SymmetrizeVerts(g, axis) ==
  LET cut(o) == Cardinality({ h \in ValidFaces(g) :
                                /\ g.faces[h].pos[axis] = 0
                                /\ g.faces[h].pos[OtherAxis(axis)] = o })
  IN [c \in Cells |->
        IF CellSign(c, axis) = 0 THEN g.verts[c] + cut(CellOther(c, axis))
        ELSE g.verts[CellAt(1, CellOther(c, axis), axis)]]

\* (SymmetrizeKeepsAll: the variant that mirrors without removing a half)
SymmetrizeKeepsAll(g, axis) ==
  [g EXCEPT !.faces = @ \o MirrorFaces(g.faces, axis),
            !.verts = [c \in Cells |-> 2 * g.verts[c]]]
symmetrize(g, axis) ==
  [g EXCEPT
     !.faces = [h \in 1..Len(g.faces) |->
                  IF g.faces[h].valid /\ g.faces[h].pos[axis] < 0
                  THEN [g.faces[h] EXCEPT !.valid = FALSE]
                  ELSE IF g.faces[h].valid /\ g.faces[h].pos[axis] = 0
                  THEN [g.faces[h] EXCEPT !.pos = [@ EXCEPT ![axis] = 1]]
                  ELSE g.faces[h]]
               \o MirrorFaces(g.faces, axis),
     !.frags = MirrorFrags(g.frags, axis),
     !.verts = SymmetrizeVerts(g, axis)]

(***************************************************************************)
(* if allow_horizontal_symmetry and random() > 0.5 : symmetrize "Y"        *)
(* if allow_vertical_symmetry and random() > 0.5 : symmetrize "Z"          *)
(***************************************************************************)
\* one symmetry step: the draw is made only when the pass is allowed
\* (SymmetryStepIgnoresFlag: the variant without the test of the flag)
SymmetryStepIgnoresFlag(g, allowed, axis) ==
  IF Above(Val(g), 50) THEN symmetrize(Adv(g), axis) ELSE Adv(g)
SymmetryStep(g, allowed, axis) ==
  IF ~allowed THEN g
  ELSE IF Above(Val(g), 50) THEN symmetrize(Adv(g), axis)
  ELSE Adv(g)

\* the vertices of the half that a pass on the axis keeps, plane included
KeptVerts(verts, axis) ==
  verts[CellAt(1, -1, axis)] + verts[CellAt(1, 0, axis)] + verts[CellAt(1, 1, axis)]
  + verts[CellAt(0, -1, axis)] + verts[CellAt(0, 0, axis)] + verts[CellAt(0, 1, axis)]
\* the two sides of the plane normal to the axis hold as many vertices
MirrorSymmetric(verts, axis) ==
  \A o \in {-1, 0, 1} : verts[CellAt(-1, o, axis)] = verts[CellAt(1, o, axis)]

PassRecord(axis, g0, g1) ==
  [axis |-> axis, before |-> NumVerts(g0.verts), after |-> NumVerts(g1.verts),
   kept |-> KeptVerts(g0.verts, axis),
   symmetric |-> MirrorSymmetric(g1.verts, axis),
   draws |-> g1.nd - g0.nd,
   fired |-> <<g1.faces, g1.frags, g1.verts>> # <<g0.faces, g0.frags, g0.verts>>]

SymmetryH ==
  /\ pc = "symmetry_h"
  /\ LET g1 == SymmetryStep(st, parms.allow_horizontal_symmetry, "y")
     IN st' = g1 /\ passes' = Append(passes, PassRecord("y", st, g1))
  /\ pc' = "symmetry_v"
  /\ UNCHANGED <<parms, scale_vector, snap, it, arm, buckets, bk, arms, asyms,
                 classed, calls, run, first>>

SymmetryV ==
  /\ pc = "symmetry_v"
  /\ LET g1 == SymmetryStep(st, parms.allow_vertical_symmetry, "z")
     IN st' = g1 /\ passes' = Append(passes, PassRecord("z", st, g1))
  /\ pc' = "finish"
  /\ UNCHANGED <<parms, scale_vector, snap, it, arm, buckets, bk, arms, asyms,
                 classed, calls, run, first>>

\* bm.to_mesh(me); bm.free(): the mesh is final
\* MATERIAL.name.lower(), in definition order
MaterialNames ==
  <<"hull base", "hull emissive", "hull dark", "metallic", "exhaust burn", "glow disc">>
\* create_materials(parms): one new material for each member of MATERIAL
create_materials(p) == [i \in 1..N_MATERIALS |-> MaterialNames[i]]
\* variant: the placeholder is appended once
AddMaterialsOnePlaceholder(g, p) ==
  [g EXCEPT !.materials = IF p.create_materials THEN create_materials(p)
                          ELSE <<"Material">>]
\* "Add materials to the spaceship": me.materials.append for each slot
AddMaterials(g, p) ==
  [g EXCEPT !.materials = IF p.create_materials THEN create_materials(p)
                          ELSE [i \in 1..N_MATERIALS |-> "Material"]]

\* colours are triples of hundredths, hues six-hundredths of a turn
\* colorsys._v(m1, m2, hue)
HlsV(m1, m2, hue) ==
  LET h == hue % 600
  IN IF h < 100 THEN m1 + ((m2 - m1) * h) \div 100
     ELSE IF h < 300 THEN m2
     ELSE IF h < 400 THEN m1 + ((m2 - m1) * (400 - h)) \div 100
     ELSE m1
\* colorsys.hls_to_rgb(h, l, s)
hls_to_rgb(h, l, s) ==
  LET m2 == IF l <= 50 THEN (l * (100 + s)) \div 100 ELSE l + s - (l * s) \div 100
      m1 == 2 * l - m2
  IN IF s = 0 THEN <<l, l, l>>
     ELSE <<HlsV(m1, m2, h + 200), HlsV(m1, m2, h), HlsV(m1, m2, h - 200)>>

\* obj.matrix_basis = orient: the factors of the product, left to right
Orientation(align) ==
  (IF align # "cursor" THEN <<"cursor location">> ELSE <<>>)
  \o <<IF align = "view" THEN "view rotation"
       ELSE IF align = "cursor" THEN "cursor matrix" ELSE "identity">>
  \o (IF align \in {"view", "cursor"} THEN <<"x by -90">> ELSE <<>>)
  \o (IF align # "nothing" THEN <<"z by -90">> ELSE <<>>)
\* obj = bpy.data.objects.new(me.name, me) ... objects.link(obj)
LinkObject(g, p) == [g EXCEPT !.orient = Orientation(p.align)]

\* variant: the bevel is applied to the mesh data, shortening every edge
AddBevelApplied(g, p) ==
  IF p.add_bevel_modifier
    THEN LET w == Uniform(Val(g), 500, 2000)
         IN [Adv(g) EXCEPT !.bevel = w,
               !.elen = [e \in 1..Len(g.elen) |-> (g.elen[e] * (10000 - w)) \div 10000]]
    ELSE g
\* "if parms.add_bevel_modifier": a modifier on the object, its width one
\* draw of uniform(5, 20) from the geometry stream; the mesh data is as it was
AddBevel(g, p) ==
  IF p.add_bevel_modifier
    THEN [Adv(g) EXCEPT !.bevel = Uniform(Val(g), 500, 2000)]
    ELSE g

\* the colours create_materials(parms) gives the materials, in MATERIAL
\* order (hull_darken = 0.3, the metallic colour is fixed)
MaterialColours(g, p) ==
  [g EXCEPT !.colours =
     IF p.create_materials
       THEN <<p.hull_base_colour, p.hull_emissive_colour,
              [i \in 1..3 |-> (30 * p.hull_base_colour[i]) \div 100],
              hls_to_rgb(55, 90, 10), p.glow_colour, p.glow_colour>>
       ELSE <<>>]

\* bm.to_mesh(me) up to "return obj"
Finish ==
  /\ pc = "finish"
  /\ pc' = "done"
  /\ st' = MaterialColours(AddMaterials(AddBevel(LinkObject(st, parms), parms), parms), parms)
  /\ UNCHANGED <<parms, scale_vector, snap, it, arm, buckets, bk, arms, asyms,
                 classed, calls, passes, run, first>>

\* what a finished call leaves behind: the mesh, the stream position and
\* the operations performed
Outcome ==
  [done |-> TRUE, faces |-> st.faces, elen |-> st.elen, verts |-> st.verts,
   frags |-> st.frags, rng |-> st.rng, nd |-> st.nd,
   materials |-> st.materials, bevel |-> st.bevel, orient |-> st.orient,
   colours |-> st.colours, arms |-> arms, asyms |-> asyms,
   classed |-> classed, calls |-> calls, passes |-> passes]

\* generate_spaceship is called once more with the same parameters
Rerun ==
  /\ pc = "done"
  /\ run = 1
  /\ first' = Outcome
  /\ run' = 2
  /\ pc' = "start"
  /\ st' = EmptyContext
  /\ scale_vector' = <<0, 0, 0>>
  /\ snap' = <<>>
  /\ it' = 0
  /\ arm' = NoArm
  /\ buckets' = NoBuckets
  /\ bk' = 0
  /\ arms' = <<>>
  /\ asyms' = <<>>
  /\ classed' = <<>>
  /\ calls' = <<>>
  /\ passes' = <<>>
  /\ UNCHANGED parms

Next ==
  \/ Begin
  \/ HullSkipFace
  \/ HullArmStart
  \/ HullSegment
  \/ AsymBegin
  \/ AsymFace
  \/ AsymEnd
  \/ DetailBegin
  \/ ClassifySkip
  \/ ClassifyFace
  \/ ClassifyEnd
  \/ DispatchExhaust
  \/ DispatchGrid
  \/ DispatchAntenna
  \/ DispatchWeapons
  \/ DispatchSphere
  \/ DispatchDisc
  \/ DispatchCylinders
  \/ NextBucket
  \/ SymmetryH
  \/ SymmetryV
  \/ Finish
  \/ Rerun

Spec == Init /\ [][Next]_vars

(***************************************************************************)
(* Two calls with one geometry seed and one set of geometry parameters,    *)
(* the second with another setting of a parameter of the finishing steps.  *)
(***************************************************************************)
\* the parameters p with one of the finishing parameters changed
Presentations(p) ==
  { [p EXCEPT !.add_bevel_modifier = ~@], [p EXCEPT !.create_materials = ~@],
    [p EXCEPT !.mat_ranseed = 1],
    [p EXCEPT !.hull_base_colour = <<100, 0, 0>>, !.glow_colour = <<0, 0, 100>>] }
  \cup { [p EXCEPT !.align = al] : al \in Aligns \ {p.align} }

PresentInit == Init /\ parms.geom_ranseed # 0

\* generate_spaceship is called once more, one finishing parameter changed
RerunPresented ==
  /\ pc = "done"
  /\ run = 1
  /\ parms' \in Presentations(parms)
  /\ first' = Outcome
  /\ run' = 2
  /\ pc' = "start"
  /\ st' = EmptyContext
  /\ scale_vector' = <<0, 0, 0>>
  /\ snap' = <<>>
  /\ it' = 0
  /\ arm' = NoArm
  /\ buckets' = NoBuckets
  /\ bk' = 0
  /\ arms' = <<>>
  /\ asyms' = <<>>
  /\ classed' = <<>>
  /\ calls' = <<>>
  /\ passes' = <<>>

PresentNext ==
  \/ Begin
  \/ HullSkipFace
  \/ HullArmStart
  \/ HullSegment
  \/ AsymBegin
  \/ AsymFace
  \/ AsymEnd
  \/ DetailBegin
  \/ ClassifySkip
  \/ ClassifyFace
  \/ ClassifyEnd
  \/ DispatchExhaust
  \/ DispatchGrid
  \/ DispatchAntenna
  \/ DispatchWeapons
  \/ DispatchSphere
  \/ DispatchDisc
  \/ DispatchCylinders
  \/ NextBucket
  \/ SymmetryH
  \/ SymmetryV
  \/ Finish
  \/ RerunPresented

PresentSpec == PresentInit /\ [][PresentNext]_vars

(***************************************************************************)
(* The functions on their own.  A mesh is prepared (the seed box, after    *)
(* at most one earlier operation that consumes a face or adds the cap of a *)
(* three-sided cone), and then one function is called once on any face     *)
(* handle, live or consumed.                                               *)
(***************************************************************************)
\* the end cap of bmesh.ops.create_cone(cap_ends = True, cap_tris = False,
\* segments = n): one face of n sides, here on face f
create_cone_cap(g, f, segments) ==
  LET F == g.faces[f]
      nl == Len(g.elen)
      side(k) == IF k = 1 THEN F.sd[1] ELSE IF k = 2 THEN F.sd[2] ELSE F.sd[3]
  IN [g EXCEPT
        !.faces = Append(@, Face(F.n, [k \in 1..segments |-> side(Cyc(k, 3))], F.pos,
                                 [k \in 1..segments |-> nl + k], "cone")),
        !.elen = @ \o [k \in 1..segments |-> 10],
        !.verts = AddVerts(@, F.pos, segments)]

Generators == {"engine", "grid", "antenna", "weapon", "sphere", "disc", "cylinder"}
\* the record of a call extrude_face(bm, f, d) that took g0 to r.g
ExtrudeRecord(f, g0, r) ==
  [gen |-> "extrude", face |-> f, valid |-> g0.faces[f].valid,
   sides |-> Len(g0.faces[f].edges), aspect |-> get_aspect_ratio(g0, f),
   draws |-> r.g.nd - g0.nd,
   changed |-> <<r.g.faces, r.g.elen, r.g.verts, r.g.frags>>
               # <<g0.faces, g0.elen, g0.verts, g0.frags>>,
   failed |-> r.g.err, ret |-> r.face]

KernelParms ==
  { p \in ParmSpace :
      /\ p.num_hull_segments_min = 1 /\ p.num_hull_segments_max = 1
      /\ p.num_asymmetry_segments_min = 1 /\ p.num_asymmetry_segments_max = 1
      /\ p.create_asymmetry_segments /\ p.create_face_detail
      /\ p.allow_horizontal_symmetry /\ ~p.allow_vertical_symmetry }

KernelInit ==
  /\ parms \in KernelParms
  /\ pc = "kernel"
  /\ \E e \in 0..MaxEntropy :
       /\ st = SeedBox(parms.geom_ranseed, e).g
       /\ scale_vector = SeedBox(parms.geom_ranseed, e).scale_vector
  /\ snap = <<>>
  /\ it = 0
  /\ arm = NoArm
  /\ buckets = NoBuckets
  /\ bk = 0
  /\ arms = <<>>
  /\ asyms = <<>>
  /\ classed = <<>>
  /\ calls = <<>>
  /\ passes = <<>>
  /\ run = 1
  /\ first = [done |-> FALSE]

KernelKeep ==
  UNCHANGED <<parms, scale_vector, snap, it, arm, buckets, bk, arms, asyms,
              classed, passes, run, first>>

\* an earlier operation: an extrusion, which consumes the face
KernelPriorExtrude ==
  /\ pc = "kernel"
  /\ \E f \in ValidFaces(st) : st' = extrude_face(st, f, 30, "hull").g
  /\ pc' = "kernel_call"
  /\ UNCHANGED calls
  /\ KernelKeep

\* an earlier operation: a grid, which consumes the face
KernelPriorGrid ==
  /\ pc = "kernel"
  /\ \E f \in ValidFaces(st) : st' = add_grid_to_face(st, f)
  /\ pc' = "kernel_call"
  /\ UNCHANGED calls
  /\ KernelKeep

\* an earlier operation: a cone of three segments, whose cap is a triangle
KernelPriorCone ==
  /\ pc = "kernel"
  /\ \E f \in ValidFaces(st) : st' = create_cone_cap(st, f, 3)
  /\ pc' = "kernel_call"
  /\ UNCHANGED calls
  /\ KernelKeep

\* new_face = extrude_face(bm, face, d) on any handle
KernelExtrude ==
  /\ pc \in {"kernel", "kernel_call"}
  /\ \E f \in 1..Len(st.faces), d \in {0, 30} :
       LET r == extrude_face(st, f, d, "hull")
       IN /\ st' = r.g
          /\ calls' = Append(calls, ExtrudeRecord(f, st, r))
          /\ pc' = Goto(r.g, "kernel_done")
  /\ KernelKeep

\* a detail generator on any handle
KernelReady == pc \in {"kernel", "kernel_call"}
KernelInvoked(kind, f, g1) ==
  /\ st' = g1
  /\ calls' = Append(calls, CallRecord(kind, f, st, g1))
  /\ pc' = Goto(g1, "kernel_done")
  /\ KernelKeep

KernelExhaust ==
  KernelReady /\ \E f \in 1..Len(st.faces) :
                   KernelInvoked("engine", f, add_exhaust_to_face(st, f))
KernelGrid ==
  KernelReady /\ \E f \in 1..Len(st.faces) :
                   KernelInvoked("grid", f, add_grid_to_face(st, f))
KernelAntenna ==
  KernelReady /\ \E f \in 1..Len(st.faces) :
                   KernelInvoked("antenna", f, add_surface_antenna_to_face(st, f))
KernelWeapons ==
  KernelReady /\ \E f \in 1..Len(st.faces) :
                   KernelInvoked("weapon", f, add_weapons_to_face(st, f))
KernelSphere ==
  KernelReady /\ \E f \in 1..Len(st.faces) :
                   KernelInvoked("sphere", f, add_sphere_to_face(st, f))
KernelDisc ==
  KernelReady /\ \E f \in 1..Len(st.faces) :
                   KernelInvoked("disc", f, add_disc_to_face(st, f))
KernelCylinders ==
  KernelReady /\ \E f \in 1..Len(st.faces) :
                   KernelInvoked("cylinder", f, add_cylinders_to_face(st, f))

\* the body of the grid generator's loop for one cell of face f: the record
\* holds the cell's material and the faces the extrusion made, the cap first
KernelGridCell ==
  /\ KernelReady
  /\ \E f \in ValidFaces(st), material_index \in {HULL, HULL_LIGHTS},
        grid_length \in {3, 15}, mat \in {HULL, HULL_DARK} :
       LET c0 == CellContext(st, [st.faces[f] EXCEPT !.mat = mat])
           c == GridCell(c0, grid_length, material_index)
       IN calls' = Append(calls,
                          [gen |-> "grid_cell", face |-> f, valid |-> TRUE,
                           sides |-> Len(c0.faces[1].edges),
                           aspect |-> get_aspect_ratio(c0, 1), draws |-> 0,
                           changed |-> c.faces # c0.faces, failed |-> c.err,
                           material_index |-> material_index,
                           before |-> mat,
                           made |-> SubSeq(c.faces, 2, Len(c.faces))])
  /\ pc' = "kernel_done"
  /\ UNCHANGED st
  /\ KernelKeep

KernelNext ==
  \/ KernelPriorExtrude
  \/ KernelPriorGrid
  \/ KernelPriorCone
  \/ KernelExtrude
  \/ KernelExhaust
  \/ KernelGrid
  \/ KernelAntenna
  \/ KernelWeapons
  \/ KernelSphere
  \/ KernelDisc
  \/ KernelCylinders
  \/ KernelGridCell

KernelSpec == KernelInit /\ [][KernelNext]_vars

(***************************************************************************)
(* The operator: invoke picks a geometry seed, derives the colours with    *)
(* randomize_colours(self, random.Random()) and generates; execute         *)
(* generates with the properties as they are.  Colours are triples of      *)
(* hundredths, hues are in six-hundredths of a turn.                       *)
(***************************************************************************)
\* the k-th draw of a stream that starts in state c
RECURSIVE Draw(_, _)
Draw(c, k) == IF k <= 1 THEN Raw(NextRng(c)) ELSE Draw(NextRng(c), k - 1)
Hue(v) == (v * 600) \div RngRes

\* random.Random() of invoke: seeded from system entropy, whatever mat_ranseed
NewMatRandom(mat_ranseed, e) == EntropyState(e)

\* randomize_colours(parms, mat_random), the stream starting in state c
randomize_colours(p, c) ==
  [p EXCEPT
     !.hull_base_colour =
        hls_to_rgb(Hue(Draw(c, 1)), Uniform(Draw(c, 2), 5, 50), Uniform(Draw(c, 3), 0, 25)),
     !.hull_emissive_colour =
        hls_to_rgb(Hue(Draw(c, 4)), Uniform(Draw(c, 5), 50, 100), Uniform(Draw(c, 6), 0, 50)),
     !.glow_colour = hls_to_rgb(Hue(Draw(c, 7)), Uniform(Draw(c, 8), 50, 100), 100)]

Palette(p) ==
  [hull_base_colour |-> p.hull_base_colour,
   hull_emissive_colour |-> p.hull_emissive_colour,
   glow_colour |-> p.glow_colour]

\* parms_defaults: the colours, and the material seed
OperatorParms ==
  { [mat_ranseed |-> m, hull_base_colour |-> <<50, 50, 50>>,
     hull_emissive_colour |-> <<75, 75, 75>>, glow_colour |-> <<100, 100, 100>>]
    @@ p : m \in Seeds, p \in ParmSpace }

OperatorInit ==
  /\ parms \in OperatorParms
  /\ pc = "invoke"
  /\ st = EmptyContext
  /\ scale_vector = <<0, 0, 0>>
  /\ snap = <<>>
  /\ it = 0
  /\ arm = NoArm
  /\ buckets = NoBuckets
  /\ bk = 0
  /\ arms = <<>>
  /\ asyms = <<>>
  /\ classed = <<>>
  /\ calls = <<>>
  /\ passes = <<>>
  /\ run = 1
  /\ first = [done |-> FALSE]

OperatorKeep ==
  UNCHANGED <<st, scale_vector, snap, it, arm, buckets, bk, arms, asyms,
              classed, calls, passes>>

\* GenerateSpaceship.invoke up to the call of generate_spaceship
Invoke ==
  /\ pc = "invoke"
  /\ \E seed \in 1..NumSeeds, e \in 0..MaxEntropy :
       parms' = randomize_colours([parms EXCEPT !.geom_ranseed = seed],
                                  NewMatRandom(parms.mat_ranseed, e))
  /\ pc' = "generate"
  /\ UNCHANGED <<run, first>>
  /\ OperatorKeep

\* GenerateSpaceship.execute up to the call of generate_spaceship
Execute ==
  /\ pc = "invoke"
  /\ pc' = "generate"
  /\ UNCHANGED <<parms, run, first>>
  /\ OperatorKeep

\* the operator is invoked once more, its material seed as it was
Reinvoke ==
  /\ pc = "generate"
  /\ run = 1
  /\ first' = [done |-> TRUE, palette |-> Palette(parms)]
  /\ run' = 2
  /\ pc' = "invoke"
  /\ UNCHANGED parms
  /\ OperatorKeep

(***************************************************************************)
(* get_aspect_ratio on its own: a box with edge lengths from a hundredth   *)
(* of a unit upwards, and one call on any of its faces.                    *)
(***************************************************************************)
AspectInit ==
  /\ parms \in KernelParms
  /\ pc = "aspect"
  /\ \E sx \in {100, 300}, sy \in 1..2, sz \in 1..MaxEdge :
       /\ st = CreateCube(EmptyContext, sx, sy, sz)
       /\ scale_vector = <<sx, sy, sz>>
  /\ snap = <<>>
  /\ it = 0
  /\ arm = NoArm
  /\ buckets = NoBuckets
  /\ bk = 0
  /\ arms = <<>>
  /\ asyms = <<>>
  /\ classed = <<>>
  /\ calls = <<>>
  /\ passes = <<>>
  /\ run = 1
  /\ first = [done |-> FALSE]

\* get_aspect_ratio(face) for a face of the box
AspectCall ==
  /\ pc = "aspect"
  /\ \E f \in 1..Len(st.faces) :
       calls' = Append(calls,
                       [gen |-> "aspect", face |-> f, valid |-> st.faces[f].valid,
                        e0 |-> st.elen[st.faces[f].edges[1]],
                        e1 |-> st.elen[st.faces[f].edges[2]],
                        ret |-> get_aspect_ratio(st, f)])
  /\ pc' = "aspect_done"
  /\ UNCHANGED <<parms, st, scale_vector, snap, it, arm, buckets, bk, arms, asyms,
                 classed, passes, run, first>>

AspectNext == AspectCall

AspectSpec == AspectInit /\ [][AspectNext]_vars

(***************************************************************************)
(* The exhausts of the last hull segment.  The rear face of a box is grown *)
(* by one segment, the arm's last, and the faces are then classified and   *)
(* the engine list dispatched.  The sizes of the box, the length of the    *)
(* segment and the states of the geometry stream before the segment and    *)
(* before the classification are inputs.                                   *)
(***************************************************************************)
ExhaustInit ==
  /\ parms \in KernelParms
  /\ pc = "exhaust_grow"
  /\ \E r \in 0..MaxStream, vz \in {0, RngRes - 1} :
       LET sx == Uniform(4, 75, 200)
           sy == Uniform(0, 75, 200)
           sz == Uniform(vz, 75, 200)
       IN /\ st = CreateCube([EmptyContext EXCEPT !.rng = r], sx, sy, sz)
          /\ scale_vector = <<sx, sy, sz>>
  /\ snap = <<>>
  /\ it = 0
  /\ arm = NoArm
  /\ buckets = NoBuckets
  /\ bk = 0
  /\ arms = <<>>
  /\ asyms = <<>>
  /\ classed = <<>>
  /\ calls = <<>>
  /\ passes = <<>>
  /\ run = 1
  /\ first = [done |-> FALSE]

\* the body of the hull loop on the rear face of the box (handle 1), as the
\* last segment of its arm
ExhaustGrow ==
  /\ pc = "exhaust_grow"
  /\ \E v \in {0, RngRes - 1} :
       LET hull_segment_length == Uniform(v, 30, 100)
           r == HullSegmentBody(st, 1, hull_segment_length, scale_vector[3], TRUE)
       IN /\ st' = r.g
          /\ arm' = [face |-> r.face, hull_segment_length |-> hull_segment_length,
                     num_hull_segments |-> 1, i |-> 1]
  /\ pc' = "exhaust_detail"
  /\ UNCHANGED <<parms, scale_vector, snap, it, buckets, bk, arms, asyms, classed,
                 calls, passes, run, first>>

\* for face in bm.faces[:] : the classification begins
ExhaustDetail ==
  /\ pc = "exhaust_detail"
  /\ \E r \in 0..MaxDetailStream : st' = [st EXCEPT !.rng = r]
  /\ snap' = AllFaces(st)
  /\ it' = 1
  /\ buckets' = NoBuckets
  /\ pc' = "classify"
  /\ UNCHANGED <<parms, scale_vector, arm, bk, arms, asyms, classed, calls, passes,
                 run, first>>

\* the engine list is exhausted
ExhaustEnd ==
  /\ pc = "dispatch"
  /\ bk = 1
  /\ it > Len(buckets.engine)
  /\ pc' = "exhaust_done"
  /\ UNCHANGED <<parms, st, scale_vector, snap, it, arm, buckets, bk, arms, asyms,
                 classed, calls, passes, run, first>>

ExhaustNext ==
  \/ ExhaustGrow
  \/ ExhaustDetail
  \/ ClassifySkip
  \/ ClassifyFace
  \/ ClassifyEnd
  \/ DispatchExhaust
  \/ ExhaustEnd

ExhaustSpec == ExhaustInit /\ [][ExhaustNext]_vars

(***************************************************************************)
(* Hull growth on its own, called as demo.py calls generate_spaceship: the *)
(* segment bounds are whatever the caller put in parms, negative numbers   *)
(* included.                                                               *)
(***************************************************************************)
HullBounds == (0 - MaxHullSeg - 1)..MaxHullSeg
HullParms ==
  { [p EXCEPT !.num_hull_segments_min = a, !.num_hull_segments_max = b] :
      p \in { q \in KernelParms :
                q.create_materials /\ q.add_bevel_modifier /\ q.align = "nothing" },
      a \in HullBounds, b \in HullBounds }

HullInit ==
  /\ parms \in HullParms
  /\ pc = "start"
  /\ st = EmptyContext
  /\ scale_vector = <<0, 0, 0>>
  /\ snap = <<>>
  /\ it = 0
  /\ arm = NoArm
  /\ buckets = NoBuckets
  /\ bk = 0
  /\ arms = <<>>
  /\ asyms = <<>>
  /\ classed = <<>>
  /\ calls = <<>>
  /\ passes = <<>>
  /\ run = 1
  /\ first = [done |-> FALSE]

HullNext ==
  \/ Begin
  \/ HullSkipFace
  \/ HullArmStart
  \/ HullSegment
  \/ AsymBegin

HullSpec == HullInit /\ [][HullNext]_vars

\* no step is left: the second run is over, or an exception ended the call
Terminated == pc = "crashed" \/ (pc = "done" /\ run = 2)
\* generate_spaceship runs as one call: a step that can be taken is taken.
\* This is WF_vars(Next), with ENABLED <<Next>>_vars written as ~Terminated:
\* every other value of pc has a step of Next, and these two have none.
FairSpec == Spec /\ ([]<>Terminated \/ []<><<Next>>_vars)

OperatorNext == Invoke \/ Execute \/ Reinvoke

OperatorSpec == OperatorInit /\ [][OperatorNext]_vars

(***************************************************************************)
(* Properties.                                                             *)
(***************************************************************************)
InvertedHull == parms.num_hull_segments_max < parms.num_hull_segments_min
InvertedAsym == parms.num_asymmetry_segments_max < parms.num_asymmetry_segments_min
Grown == Len(st.faces) > 6

\* C1: two runs of generate_spaceship with the same non-empty geom_ranseed
\* and equal parameters consume the geometry stream alike and perform the
\* same operations: the second run ends with the faces, edge lengths,
\* vertices, detail geometry, materials, stream state, draw count and
\* operation records of the first.
SeededRunsAgree ==
  (run = 2 /\ pc = "done" /\ parms.geom_ranseed # 0) => Outcome = first
SeededRunsAgreeWitness ==
  /\ run = 2 /\ pc = "done" /\ parms.geom_ranseed # 0
  /\ first.done /\ first.calls # <<>> /\ first.asyms # <<>>
  /\ \E k \in 1..Len(passes) : passes[k].fired

\* C2: in every state of generation and in the output mesh, the material
\* index of every face (hull faces and the faces of detail geometry alike)
\* lies in [0, N_MATERIALS).
MaterialInRange ==
  /\ \A f \in 1..Len(st.faces) : st.faces[f].mat \in 0..(N_MATERIALS - 1)
  /\ \A k \in 1..Len(st.frags) : st.frags[k].mat \in 0..(N_MATERIALS - 1)
MaterialInRangeWitness ==
  /\ pc = "done"
  /\ \E k \in 1..Len(st.frags) : st.frags[k].mat = GLOW_DISC
  /\ \E f \in ValidFaces(st) : st.faces[f].mat = HULL_LIGHTS
  /\ \E k \in 1..Len(st.frags) : st.frags[k].mat = EXHAUST_BURN

\* C3: every arm of hull growth plans a number of segments within
\* [num_hull_segments_min, num_hull_segments_max] when max >= min and exactly
\* num_hull_segments_min when max < min, performs exactly the planned number
\* of iterations of the segment loop, and hull growth raises no exception.
HullCrashed == pc = "crashed" /\ asyms = <<>> /\ classed = <<>> /\ calls = <<>>
HullSegmentsWithinBounds ==
  /\ ~HullCrashed
  /\ \A k \in 1..Len(arms) :
       /\ ~InvertedHull =>
            /\ arms[k].planned >= parms.num_hull_segments_min
            /\ arms[k].planned <= parms.num_hull_segments_max
       /\ InvertedHull => arms[k].planned = parms.num_hull_segments_min
       /\ arms[k].done <= arms[k].planned
       /\ (k < Len(arms) \/ pc # "segment") => arms[k].done = arms[k].planned
HullSegmentsWithinBoundsWitness ==
  /\ pc = "done" /\ InvertedHull /\ Len(arms) = 2
  /\ \A k \in 1..Len(arms) :
       arms[k].done = parms.num_hull_segments_min /\ arms[k].done > 0

\* C4 (as claimed): no detail generator is invoked on a face whose aspect
\* ratio is greater than 3 at the time of the invocation.
NoThinFaceAtInvocation ==
  \A k \in 1..Len(calls) : ~AspectAbove(calls[k].aspect, DetailAspectLimit)
\* C4 (amended): every face a detail generator is invoked on was put in
\* that generator's bucket by classification, and its aspect ratio was at
\* most 3 when it was classified.
ThinFacesFilteredAtClassification ==
  \A k \in 1..Len(calls) :
    \E j \in 1..Len(classed) :
      /\ classed[j].face = calls[k].face
      /\ classed[j].bucket = calls[k].gen
      /\ classed[j].draws = 1
      /\ ~AspectAbove(classed[j].aspect, DetailAspectLimit)
ThinFacesFilteredAtClassificationWitness ==
  \E k \in 1..Len(calls) :
    /\ calls[k].valid
    /\ AspectAbove(calls[k].aspect, DetailAspectLimit)
    /\ \E j \in 1..Len(classed) :
         /\ classed[j].face = calls[k].face
         /\ ~AspectAbove(classed[j].aspect, DetailAspectLimit)

\* C5: in the asymmetry pass no protrusion chain is started on a face whose
\* aspect ratio is greater than 4, and no draw is consumed for such a face.
NoAsymmetryOnThinFace ==
  \A k \in 1..Len(asyms) :
    AspectAbove(asyms[k].aspect, AsymAspectLimit) =>
      /\ ~asyms[k].started
      /\ asyms[k].done = 0
      /\ asyms[k].draws = 0
NoAsymmetryOnThinFaceWitness ==
  /\ \E k \in 1..Len(asyms) : AspectAbove(asyms[k].aspect, AsymAspectLimit)
  /\ \E k \in 1..Len(asyms) : asyms[k].started

\* C6 (as claimed): with create_asymmetry_segments true and
\* num_asymmetry_segments_max < num_asymmetry_segments_min the asymmetry
\* pass still runs, and every chain it starts has exactly
\* num_asymmetry_segments_min segments.
AsymInvertedUsesMin ==
  (pc = "done" /\ parms.create_asymmetry_segments /\ InvertedAsym) =>
    /\ asyms # <<>>
    /\ \A k \in 1..Len(asyms) :
         asyms[k].started => asyms[k].done = parms.num_asymmetry_segments_min
\* C6 (amended): with create_asymmetry_segments true and
\* num_asymmetry_segments_max < num_asymmetry_segments_min the asymmetry
\* pass is skipped altogether: no face is examined, no chain is started, no
\* draw is consumed by the pass and no exception is raised.
AsymInvertedSkipsPass ==
  (parms.create_asymmetry_segments /\ InvertedAsym) =>
    /\ asyms = <<>>
    /\ pc # "asym"
    /\ (pc \in {"detail", "classify", "dispatch", "symmetry_h", "symmetry_v",
                "finish", "done"} => ~st.err)
AsymInvertedSkipsPassWitness ==
  /\ parms.create_asymmetry_segments /\ InvertedAsym
  /\ pc = "detail" /\ Grown

\* C7: with create_asymmetry_segments true and max >= min, every chain
\* started in the asymmetry pass performs a number of extrusions within
\* [num_asymmetry_segments_min, num_asymmetry_segments_max], all of them by
\* the one hull_piece_length drawn for the chain.
AsymChainWithinBounds ==
  (parms.create_asymmetry_segments /\ ~InvertedAsym) =>
    \A k \in 1..Len(asyms) :
      asyms[k].started =>
        /\ asyms[k].done >= parms.num_asymmetry_segments_min
        /\ asyms[k].done <= parms.num_asymmetry_segments_max
        /\ asyms[k].done = asyms[k].planned
        /\ asyms[k].lens = {asyms[k].len}
        /\ asyms[k].len >= 10 /\ asyms[k].len <= 40
AsymChainWithinBoundsWitness ==
  /\ parms.num_asymmetry_segments_min < parms.num_asymmetry_segments_max
  /\ \E k \in 1..Len(asyms) :
       asyms[k].started /\ asyms[k].done = parms.num_asymmetry_segments_max
  /\ \E k \in 1..Len(asyms) :
       asyms[k].started /\ asyms[k].done = parms.num_asymmetry_segments_min

\* C8: with create_face_detail false no detail generator is invoked, no
\* face is classified (so no draw is made for classification), no cone or
\* icosphere is added, and every face of the mesh has material HULL.
NoDetailWhenDisabled ==
  ~parms.create_face_detail =>
    /\ calls = <<>>
    /\ classed = <<>>
    /\ buckets = NoBuckets
    /\ st.frags = <<>>
    /\ pc \notin {"classify", "dispatch"}
    /\ \A f \in ValidFaces(st) : st.faces[f].mat = HULL
NoDetailWhenDisabledWitness ==
  /\ ~parms.create_face_detail /\ pc = "done" /\ Grown
  /\ \E k \in 1..Len(passes) : passes[k].fired

\* C9: with allow_horizontal_symmetry and allow_vertical_symmetry both
\* false the finalizer calls symmetrize not once, draws nothing and leaves
\* the mesh as it was: the vertex count of the output equals the count
\* before the finalizer.
NoSymmetryWhenDisabled ==
  (~parms.allow_horizontal_symmetry /\ ~parms.allow_vertical_symmetry) =>
    /\ \A k \in 1..Len(passes) :
         /\ ~passes[k].fired
         /\ passes[k].draws = 0
         /\ passes[k].after = passes[k].before
    /\ pc \in {"finish", "done"} =>
         /\ Len(passes) = 2
         /\ NumVerts(st.verts) = passes[1].before
NoSymmetryWhenDisabledWitness ==
  /\ ~parms.allow_horizontal_symmetry /\ ~parms.allow_vertical_symmetry
  /\ pc = "done" /\ Len(passes) = 2 /\ NumVerts(st.verts) > 8

ExtrudeInvalidIsNoOp ==
  \A k \in 1..Len(calls) :
    (calls[k].gen = "extrude" /\ ~calls[k].valid) =>
      /\ ~calls[k].changed
      /\ calls[k].ret = calls[k].face
      /\ ~calls[k].failed

\* C12: each of the seven detail generators, called on a face that an
\* earlier operation consumed, returns at once: the mesh and every material
\* index are left as they were, nothing is drawn from the geometry stream
\* and no exception is raised.
GeneratorsSkipInvalidFace ==
  \A k \in 1..Len(calls) :
    (calls[k].gen \in Generators /\ ~calls[k].valid) =>
      /\ ~calls[k].changed
      /\ calls[k].draws = 0
      /\ ~calls[k].failed
      /\ pc # "crashed"
GeneratorsSkipInvalidFaceWitness ==
  /\ pc = "kernel_done"
  /\ Len(calls) = 1
  /\ calls[1].gen \in Generators
  /\ ~calls[1].valid
  /\ Len(st.faces) > 6

\* C13 (as claimed): a detail generator whose placement assumes a quad
\* (cylinder array, weapon turret, surface antenna, sphere, landing disc)
\* returns without changing the mesh when its face is valid but has fewer
\* than 4 vertices.
QuadGeneratorsSkipTriangle ==
  \A k \in 1..Len(calls) :
    (/\ calls[k].gen \in {"cylinder", "weapon", "antenna", "sphere", "disc"}
     /\ calls[k].valid
     /\ calls[k].sides < 4) =>
      /\ ~calls[k].changed
      /\ ~calls[k].failed

\* C14 (as claimed): for a fixed non-empty mat_ranseed the colours derived
\* for the palette (hull_base_colour, hull_emissive_colour, glow_colour)
\* are the same in every run.
PaletteFollowsSeed ==
  (run = 2 /\ pc = "generate" /\ parms.mat_ranseed # 0) =>
    Palette(parms) = first.palette

SixMaterialSlots ==
  pc = "done" =>
    LET m == st.materials
    IN /\ Len(m) = N_MATERIALS
       /\ parms.create_materials =>
            /\ m = MaterialNames
            /\ \A i, j \in 1..Len(m) : i # j => m[i] # m[j]
       /\ ~parms.create_materials => \A i \in 1..Len(m) : m[i] = "Material"
       /\ \A f \in ValidFaces(st) : st.faces[f].mat + 1 \in DOMAIN m
       /\ \A k \in 1..Len(st.frags) : st.frags[k].mat + 1 \in DOMAIN m
\* a finished mesh without create_materials that has faces in slots 1 and 4
SixMaterialSlotsWitness ==
  /\ pc = "done"
  /\ ~parms.create_materials
  /\ \E f \in ValidFaces(st) : st.faces[f].mat = HULL_LIGHTS
  /\ \E k \in 1..Len(st.frags) : st.frags[k].mat = EXHAUST_BURN

HullMade == {"box", "hull", "asym"}

\* C17: classification has gone through the whole snapshot before the first
\* detail generator is invoked; every face passed to a generator was
\* classified from the snapshot into that generator's bucket; no face made
\* by a detail generator is classified, given a draw or passed to one.
ClassifiedBeforeDetail ==
  /\ pc = "classify" => calls = <<>>
  /\ calls # <<>> =>
       /\ classed # <<>>
       /\ Len(classed) = classed[1].of
  /\ \A j \in 1..Len(classed) :
       /\ classed[j].at = j
       /\ classed[j].of = classed[1].of
       /\ st.faces[classed[j].face].gen \in HullMade
  /\ \A k \in 1..Len(calls) :
       /\ st.faces[calls[k].face].gen \in HullMade
       /\ \E j \in 1..Len(classed) :
            classed[j].face = calls[k].face /\ classed[j].bucket = calls[k].gen
\* two generators have run, after a classification that skipped a thin face
\* and went through more faces than the seed box has
ClassifiedBeforeDetailWitness ==
  /\ pc = "dispatch"
  /\ Len(calls) >= 2
  /\ calls[1].changed
  /\ Len(classed) > 6
  /\ \E j \in 1..Len(classed) : classed[j].bucket = "skipped"

\* the order of the dispatch loops as claimed, and the place of a kind in it
ClaimedOrder == <<"engine", "grid", "antenna", "weapon", "sphere", "disc", "cylinder">>
ClaimedPlace(kind) == CHOOSE k \in 1..Len(ClaimedOrder) : ClaimedOrder[k] = kind
\* the faces classification appended to the list of a kind, in order
ClassedInto(kind) ==
  LET sel == SelectSeq(classed, LAMBDA c : c.bucket = kind)
  IN [j \in 1..Len(sel) |-> sel[j].face]
\* the faces the generator of a kind was invoked on, in order
CalledOf(kind) ==
  LET sel == SelectSeq(calls, LAMBDA c : c.gen = kind)
  IN [j \in 1..Len(sel) |-> sel[j].face]

\* C18: generators are invoked bucket by bucket in the order engine, grid,
\* antenna, weapon, sphere, disc, cylinder: no call of an earlier bucket
\* follows a call of a later one, a bucket is begun only when the earlier
\* ones are finished, and within a bucket the faces are processed in the
\* order classification appended them.
DispatchInBucketOrder ==
  /\ \A k, l \in 1..Len(calls) :
       k < l => ClaimedPlace(calls[k].gen) <= ClaimedPlace(calls[l].gen)
  /\ \A b \in 1..Len(ClaimedOrder) :
       LET done == CalledOf(ClaimedOrder[b])
           due == ClassedInto(ClaimedOrder[b])
       IN /\ Len(done) <= Len(due)
          /\ \A j \in 1..Len(done) : done[j] = due[j]
          /\ (\E k \in 1..Len(calls) : ClaimedPlace(calls[k].gen) > b) => done = due
  /\ pc \in {"symmetry_h", "symmetry_v", "finish", "done"} =>
       \A b \in 1..Len(ClaimedOrder) : CalledOf(ClaimedOrder[b]) = ClassedInto(ClaimedOrder[b])
\* a finished dispatch that ran three kinds of generator, one of them on
\* two faces or more
DispatchInBucketOrderWitness ==
  /\ pc = "symmetry_h"
  /\ Cardinality({ calls[k].gen : k \in 1..Len(calls) }) >= 3
  /\ \E b \in 1..Len(ClaimedOrder) :
       LET done == CalledOf(ClaimedOrder[b])
       IN Len(done) >= 2 /\ done[1] # done[2]

\* C19: in hull growth, ribbed extrusion and the asymmetry pass every
\* extrude, scale, translate and rotate acts on a face present in the mesh:
\* no step of these stages fails on a destroyed handle, and the face an arm
\* goes on with is the valid cap of the chain's most recent extrusion.
GrowthUsesLiveFace ==
  /\ pc \in {"hull", "segment", "asym", "detail"} => ~st.err
  /\ st.err => calls # <<>>
  /\ pc = "segment" =>
       /\ arm.face \in ValidFaces(st)
       /\ arm.i > 0 =>
            /\ st.faces[arm.face].gen = "hull"
            /\ arm.face = Len(st.faces) - Len(st.faces[arm.face].edges)
  /\ \A k \in 1..Len(asyms) : asyms[k].done = asyms[k].planned
\* both arms have grown a segment and an asymmetry chain of two extrusions
\* has been made, all on live faces
GrowthUsesLiveFaceWitness ==
  /\ pc = "detail"
  /\ ~st.err
  /\ Len(arms) = 2
  /\ \A k \in 1..Len(arms) : arms[k].done >= 1
  /\ \E k \in 1..Len(asyms) : asyms[k].done >= 2
  /\ Cardinality({ f \in 1..Len(st.faces) : ~st.faces[f].valid }) >= 4

\* C20: hull growth goes through a snapshot of the six faces of the seed box
\* and starts an arm only from the faces with |normal.x| > 0.5: exactly two
\* arms are grown, from the -X and the +X face, and no face made during
\* growth starts an arm.
TwoArmsFromSeedBox ==
  /\ pc \in {"hull", "segment"} => Len(snap) = 6
  /\ Len(arms) <= 2
  /\ \A k \in 1..Len(arms) :
       /\ arms[k].face \in 1..6
       /\ st.faces[arms[k].face].gen = "box"
       /\ Axis(st.faces[arms[k].face].n) = "x"
  /\ \A k, l \in 1..Len(arms) : k # l => arms[k].face # arms[l].face
  /\ pc \in {"asym", "detail", "classify", "dispatch", "symmetry_h", "symmetry_v",
             "finish", "done"} =>
       /\ Len(arms) = 2
       /\ { st.faces[arms[k].face].n : k \in 1..Len(arms) } = {"-x", "+x"}
\* growth is over, both arms have grown, and the mesh holds faces made
\* during growth whose normal is along X
TwoArmsFromSeedBoxWitness ==
  /\ pc = "asym"
  /\ Len(arms) = 2
  /\ \A k \in 1..Len(arms) : arms[k].done >= 1
  /\ \E f \in ValidFaces(st) : st.faces[f].gen = "hull" /\ st.faces[f].dir = "+x"
  /\ \E f \in ValidFaces(st) : st.faces[f].gen = "hull" /\ st.faces[f].dir = "-x"

\* C21: classification makes exactly one draw for each snapshot face whose
\* aspect ratio is at most 3, whether or not the face is in a direction
\* group or lands in a bucket, and no draw for a face whose aspect ratio is
\* greater than 3.
OneDrawPerClassifiedFace ==
  \A j \in 1..Len(classed) :
    IF AspectAbove(classed[j].aspect, 3)
    THEN classed[j].draws = 0 /\ classed[j].bucket = "skipped"
    ELSE classed[j].draws = 1 /\ classed[j].bucket # "skipped"
\* classification went past a thin face without a draw, drew for a face
\* tilted out of every direction group, and drew for one that got a bucket
OneDrawPerClassifiedFaceWitness ==
  /\ pc = "dispatch"
  /\ \E j \in 1..Len(classed) :
       AspectAbove(classed[j].aspect, 3) /\ classed[j].draws = 0
  /\ \E j \in 1..Len(classed) :
       /\ st.faces[classed[j].face].dir = "none"
       /\ classed[j].bucket = "none"
       /\ classed[j].draws = 1
  /\ \E j \in 1..Len(classed) : classed[j].bucket \in Generators

\* classification has just ended: no generator has run yet
ClassificationEnded == pc = "dispatch" /\ bk = 1 /\ it = 1 /\ calls = <<>>
\* the direction groups whose last branch assigns HULL_LIGHTS
LitGroups == {"-x", "+x", "-y", "+y"}

\* C22 (as claimed): every face that classification puts in none of the
\* seven buckets still has material index HULL when classification ends.
UnbucketedKeepHull ==
  ClassificationEnded =>
    \A j \in 1..Len(classed) :
      classed[j].bucket \in {"none", "skipped"} =>
        st.faces[classed[j].face].mat = HULL
\* C22 (amended): when classification ends, a face in no bucket has
\* HULL_LIGHTS if it passed the aspect filter and is a rear, front or side
\* face (its draw fell in the last branch of its group), and HULL otherwise:
\* top, bottom and ungrouped faces and the faces skipped as thin keep HULL.
UnbucketedHullOrLights ==
  ClassificationEnded =>
    \A j \in 1..Len(classed) :
      LET F == st.faces[classed[j].face]
      IN classed[j].bucket \in {"none", "skipped"} =>
           IF classed[j].bucket = "none" /\ F.dir \in LitGroups
           THEN F.mat = HULL_LIGHTS
           ELSE F.mat = HULL
\* classification ended with an unbucketed rear or side face, an unbucketed
\* top or bottom face, and a skipped face
UnbucketedHullOrLightsWitness ==
  /\ ClassificationEnded
  /\ \E j \in 1..Len(classed) :
       /\ classed[j].bucket = "none"
       /\ st.faces[classed[j].face].dir \in LitGroups
       /\ st.faces[classed[j].face].mat = HULL_LIGHTS
  /\ \E j \in 1..Len(classed) :
       /\ classed[j].bucket = "none"
       /\ st.faces[classed[j].face].dir \in {"+z", "-z"}
       /\ st.faces[classed[j].face].mat = HULL
  /\ \E j \in 1..Len(classed) : classed[j].bucket = "skipped"

\* C23 (as claimed): for a valid face whose first two edges have positive
\* lengths e0 and e1, get_aspect_ratio returns max(e0, e1) / min(e0, e1),
\* which is at least 1.
AspectIsMaxOverMin ==
  \A k \in 1..Len(calls) :
    LET c == calls[k]
    IN (c.gen = "aspect" /\ c.valid /\ c.e0 > 0 /\ c.e1 > 0) =>
         /\ c.ret[1] >= c.ret[2]
         /\ c.ret[1] * Min(c.e0, c.e1) = c.ret[2] * Max(c.e0, c.e1)
\* C23 (amended): the value returned is at least 1; it is
\* max(e0, e1) / min(e0, e1) unless e0 / e1 < 0.01, and exactly 100 then
\* (the quotient is raised to 0.01 before it is inverted).
AspectIsClampedMaxOverMin ==
  \A k \in 1..Len(calls) :
    LET c == calls[k]
    IN (c.gen = "aspect" /\ c.valid /\ c.e0 > 0 /\ c.e1 > 0) =>
         /\ c.ret[1] >= c.ret[2]
         /\ IF 100 * c.e0 < c.e1
            THEN c.ret[1] = 100 * c.ret[2]
            ELSE c.ret[1] * Min(c.e0, c.e1) = c.ret[2] * Max(c.e0, c.e1)
\* a call on a face whose second edge is shorter than its first, with the
\* quotient above 100
AspectIsClampedMaxOverMinWitness ==
  /\ pc = "aspect_done"
  /\ Len(calls) = 1
  /\ calls[1].valid
  /\ calls[1].e0 > 100 * calls[1].e1
  /\ calls[1].ret[1] > 100 * calls[1].ret[2]

\* C24 (as claimed): of the faces made by extruding a grid cell, a face is
\* given the cell's chosen material if and only if it is a side face of the
\* extrusion whose own normal has |normal.z| < 0.707; the cap (the first
\* face made) and the other side faces keep their material index.
GridTagsSideFaces ==
  \A k \in 1..Len(calls) :
    LET c == calls[k]
    IN (c.gen = "grid_cell" /\ c.before # c.material_index) =>
         \A h \in 1..Len(c.made) :
           IF h > 1 /\ Axis(c.made[h].n) # "z"
           THEN c.made[h].mat = c.material_index
           ELSE c.made[h].mat = c.before

RECURSIVE SumOfNumerators(_)
SumOfNumerators(q) ==
  IF q = <<>> THEN 0 ELSE Head(q)[1] + SumOfNumerators(Tail(q))
RibFraction == <<1, 0, 2, 0, 1>>

\* C25: a ribbed hull segment performs num_ribs rib units, num_ribs being 2, 3
\* or 4; each unit extrudes by 1/4, 0, 1/2, 0 and 1/4 of
\* hull_segment_length / num_ribs, and the distances of the whole segment sum
\* to hull_segment_length (distances taken as exact fractions).
RibbedSegmentSumsToLength ==
  \A k \in 1..Len(arms) : \A j \in 1..Len(arms[k].ribs) :
    LET r == arms[k].ribs[j]
    IN /\ r.num_ribs \in {2, 3, 4}
       /\ Len(r.dists) = 5 * r.num_ribs
       /\ \A i \in 1..Len(r.dists) :
            /\ r.dists[i][2] = 4 * r.num_ribs
            /\ r.dists[i][1] = RibFraction[((i - 1) % 5) + 1] * r.translate_forwards
       /\ SumOfNumerators(r.dists) = r.translate_forwards * 4 * r.num_ribs
\* a finished generation with a ribbed segment whose length is not a
\* multiple of 4 * num_ribs hundredths
RibbedSegmentSumsToLengthWitness ==
  /\ pc = "done"
  /\ \E k \in 1..Len(arms) : \E j \in 1..Len(arms[k].ribs) :
       LET r == arms[k].ribs[j]
       IN /\ r.translate_forwards > 0
          /\ r.translate_forwards % (4 * r.num_ribs) # 0
          /\ Len(r.dists) = 5 * r.num_ribs

\* the entries of classed whose face is a rear face that passed the aspect test
RearClassed == {j \in 1..Len(classed) :
                  /\ classed[j].bucket # "skipped"
                  /\ st.faces[classed[j].face].dir = "-x"}

\* C26: the first rear face with aspect ratio <= 3 met by classification is
\* put in the engine list whatever its draw; so when dispatch begins and the
\* snapshot held such a face, the engine list is not empty and starts with it.
FirstRearFaceIsEngine ==
  (pc = "classify" \/ ClassificationEnded) =>
    \A j \in RearClassed :
      (\A h \in RearClassed : h >= j) =>
        /\ classed[j].bucket = "engine"
        /\ buckets.engine # <<>>
        /\ buckets.engine[1] = classed[j].face
\* dispatch begins after a classification whose first rear face had a draw
\* of at most 0.75: the draw alone would not have made it an engine
FirstRearFaceIsEngineWitness ==
  /\ ClassificationEnded
  /\ \E j \in RearClassed :
       /\ \A h \in RearClassed : h >= j
       /\ classed[j].bucket = "engine"
       /\ ~Above(classed[j].val, 75)

\* the seven lists one after the other
AllBucketed ==
  buckets.engine \o buckets.grid \o buckets.antenna \o buckets.weapon \o
  buckets.sphere \o buckets.disc \o buckets.cylinder

\* C27: classification appends each face of its snapshot to at most one
\* list and at most once, so over the whole dispatch stage each face is
\* passed to at most one detail generator, at most one time.
EachFaceDetailedAtMostOnce ==
  /\ \A i, j \in 1..Len(AllBucketed) : i # j => AllBucketed[i] # AllBucketed[j]
  /\ \A i, j \in 1..Len(classed) : i # j => classed[i].face # classed[j].face
  /\ \A k, l \in 1..Len(calls) : k # l => calls[k].face # calls[l].face
  /\ Len(calls) <= Len(AllBucketed)
\* a finished dispatch over three lists or more in which every listed face
\* has had its one call
EachFaceDetailedAtMostOnceWitness ==
  /\ pc = "symmetry_h"
  /\ Cardinality({n \in DOMAIN buckets : buckets[n] # <<>>}) >= 3
  /\ Len(calls) = Len(AllBucketed)
  /\ Len(calls) >= 4

MeshOf(o) ==
  [faces |-> o.faces, elen |-> o.elen, verts |-> o.verts, frags |-> o.frags,
   arms |-> o.arms, asyms |-> o.asyms, classed |-> o.classed,
   calls |-> o.calls, passes |-> o.passes]

\* C29: for a fixed non-empty geometry seed and fixed geometry parameters,
\* a call that differs in add_bevel_modifier, create_materials, align,
\* mat_ranseed or the colours ends with the same mesh (faces, material
\* indices, edge lengths, vertices, detail primitives) built by the same
\* operations: the bevel-width draw comes after the mesh is final.
MeshIgnoresPresentation ==
  (run = 2 /\ pc = "done") => MeshOf(Outcome) = MeshOf(first)
\* a second call without the bevel after a first with it, which drew one
\* value more, on a mesh with detail and a mirror pass
MeshIgnoresPresentationWitness ==
  /\ run = 2 /\ pc = "done" /\ first.done
  /\ first.bevel # 0 /\ st.bevel = 0 /\ first.nd = st.nd + 1
  /\ first.rng # st.rng
  /\ calls # <<>>
  /\ \E k \in 1..Len(passes) : passes[k].fired

\* C30: an arm whose segment count is zero or negative extrudes nothing and
\* records no segment; when every arm is such, hull growth leaves the seed
\* box as it was, has drawn only the box's three values and each arm's
\* length and (with ordered bounds) count, never enters the segment loop,
\* raises nothing, and generation goes on to the next stage.
EmptyArmsDoNothing ==
  /\ \A k \in 1..Len(arms) :
       arms[k].planned <= 0 => arms[k].done = 0 /\ arms[k].ribs = <<>>
  /\ (arms # <<>> /\ \A k \in 1..Len(arms) : arms[k].planned <= 0) =>
       /\ pc \notin {"crashed", "segment"}
       /\ ~st.err
       /\ Len(st.faces) = 6
       /\ \A f \in 1..6 : st.faces[f].valid /\ st.faces[f].gen = "box"
       /\ st.nd = 3 + Len(arms) * (IF HullBoundsOrdered(parms) THEN 2 ELSE 1)
\* hull growth is over and the next stage entered, after two arms of which
\* one planned a negative count and one planned zero
EmptyArmsDoNothingWitness ==
  /\ pc \in {"asym", "detail"}
  /\ Len(arms) = 2
  /\ \E k \in 1..2 : arms[k].planned < 0
  /\ \E k \in 1..2 : arms[k].planned = 0
  /\ HullBoundsOrdered(parms)

=========================================================================
